---- MODULE Spec2Model ----
(***************************************************************************)
(* ServiceDesk backend (FastAPI + SQLAlchemy + Redis) as a state machine.  *)
(*                                                                         *)
(* The database tables, the Redis keys, the in-memory connection registry  *)
(* and the requests in flight are the state.  A handler is cut at its      *)
(* `await`s: every await is a point where another request may run, so a    *)
(* handler is a small process whose position is the pc of its slot.        *)
(*                                                                         *)
(* Conventions: None is 0 for ids (ids start at 1), an optional value is a *)
(* sequence of length 0 or 1 (<<>> is None / cache miss), primary keys are *)
(* handed out by a counter and never reused.  The Ukrainian status         *)
(* literals are written in Latin transliteration.                          *)
(***************************************************************************)
EXTENDS Integers, Sequences, FiniteSets, TLC

\* ------------------------------------------------------------------ bounds
NUsers == 3
MaxProblems == 2
MaxInFlight == 2
ListUsers == 2
MaxRecords == 2
MaxTime == 3
MaxTokens == 2
AccessTokenExpire == 2
MaxLinks == 2
MaxChats == 2
MaxCodes == 2
MaxSockets == 2
MaxNames == 2
MaxEmails == 2
MaxPoints == 3
MaxPasswords == 2
MaxLateTime == 4
RateWindow == 2
MaxNameParts == 2
MaxUpdates == 2
LoginRate == 3
RefreshTokenExtra == 1
MaxMessages == 2
MaxFrames == 2
OtherPlayers == 9
TopLimit == 10

UserIds == 1..NUsers
ProblemIds == 1..MaxProblems
Slots == 1..MaxInFlight
LinkIds == 1..MaxLinks
ChatIds == 1..MaxChats
Codes == 1..MaxCodes
WsSlots == 1..MaxSockets
Usernames == 1..MaxNames
Emails == [name : 1..MaxEmails, cased : BOOLEAN]

None == <<>>
Some(x) == <<x>>

\* models.py:23 default "В обробці"; crud.py:194 "в роботі";
\* schemas.py:108 "виконано" | "відмовлено"
StatusNew == "V_obrobtsi"
StatusInWork == "v_roboti"
StatusDone == "vykonano"
StatusRejected == "vidmovleno"

VARIABLES
    users,          \* table users: id -> row
    problems,       \* table problems: id -> row
    nextProblemId,  \* the problems primary-key sequence
    listCache,      \* redis admin:problems_list (key 0) and user:{id}:problems_list
    detailCache,    \* redis problem:{id}
    req,            \* HTTP ticket requests in flight, one per slot
    listRacy,       \* history: the list cache entry was written by a read that a write overlapped
    deleted,        \* history: per id, whether DELETE /problems/{id} answered 200 and a GET raced it
    serviceRecords, \* table service_records: id -> row, in insertion order
    now,            \* the clock, in whole seconds
    tokens,         \* the access tokens issued so far
    blacklist,      \* redis blacklist:{token}, each with the second it expires at
    revoked,        \* history: tokens whose DELETE /users/me has answered 200
    tgLinks,        \* redis tg_link:{token}: token -> user id, 0 when absent
    nextLink,       \* the next fresh link token
    confirms,       \* history: per link token, how many confirmations answered 200
    verification,   \* redis verification:{user_id}: user -> code, 0 when absent
    ws,             \* WebSocket connections, one per socket slot
    active_connections, \* manager.active_connections: ticket id -> sockets of its chat
    admin_connections,  \* manager.admin_connections
    user_connections,   \* manager.user_connections: user id -> sockets
    wsOut,          \* the envelopes sent over notification sockets so far
    identity,       \* table users, columns username and email: id -> row
    nextUserId,     \* the users primary-key sequence
    snakeStats,     \* table snake_stats, in insertion order
    snakeCache,     \* redis snake_top_10
    snakeBest,      \* history: per user, the maximum of the points submitted with success
    outbox,         \* the background tasks added so far: mails and bot messages
    messages,       \* table problem_messages, in insertion order
    bucket,         \* the limiter of POST /login: the seconds of the calls it admitted
    bot             \* the Telegram bot: the updates it polled, one per slot

ticketState == <<problems, nextProblemId, listCache, detailCache, listRacy, deleted,
                 serviceRecords>>
authVars == <<now, tokens, blacklist, revoked>>
tgVars == <<tgLinks, nextLink, confirms>>
wsVars == <<ws, active_connections, admin_connections, user_connections, wsOut>>
regVars == <<identity, nextUserId>>
snakeVars == <<snakeStats, snakeCache, snakeBest>>
lateVars == <<regVars, snakeVars, outbox, messages, bucket, bot>>

\* the state outside the ticket subsystem, outside the tokens, ...
offTicket == <<authVars, tgVars, verification, wsVars, lateVars>>
offAuth == <<tgVars, verification, wsVars, lateVars>>
offTg == <<authVars, verification, wsVars, lateVars>>
offVerify == <<authVars, tgVars, wsVars, lateVars>>
offWs == <<authVars, tgVars, verification, lateVars>>
offOutbox == <<authVars, tgVars, verification, wsVars, regVars, snakeVars, messages, bucket,
              bot>>
offReg == <<ticketState, authVars, tgVars, verification, wsVars, snakeVars, outbox, messages,
            bucket, bot>>
offSnake == <<ticketState, authVars, tgVars, verification, wsVars, regVars, outbox, messages,
              bucket, bot>>
offChat == <<authVars, tgVars, verification, regVars, snakeVars, outbox, bucket, bot>>
offBucket == <<ticketState, authVars, tgVars, verification, wsVars, regVars, snakeVars, outbox,
               messages, bot>>
offBot == <<users, req, ticketState, authVars, tgVars, verification, wsVars, regVars, snakeVars,
            outbox, messages, bucket>>

vars == <<users, req, ticketState, offTicket>>

\* ------------------------------------------------------------------ rows
\* an e-mail address: its letters, and whether some of them are upper case
NoEmail == [name |-> 0, cased |-> FALSE]
NoIdentity == [username |-> 0, email |-> NoEmail, password |-> 0]

NoUser == [exists |-> FALSE, is_admin |-> FALSE, is_verified |-> FALSE, telegram_id |-> 0]
NoProblem == [exists |-> FALSE, user_id |-> 0, admin_id |-> 0, status |-> ""]

NewUser(admin, verified) ==
    [exists |-> TRUE, is_admin |-> admin, is_verified |-> verified, telegram_id |-> 0]

\* models.Problem(title, description, user_id, image_url): status takes the
\* column default, admin_id is NULL
NewProblem(user_id) ==
    [exists |-> TRUE, user_id |-> user_id, admin_id |-> 0, status |-> StatusNew]

\* jsonable_encoder(problem): the row's columns as a JSON object
Encode(id, row) ==
    [id |-> id, user_id |-> row.user_id, admin_id |-> row.admin_id, status |-> row.status]

\* "admin:problems_list"; key u is "user:{u}:problems_list", key 0 "user:None:problems_list"
AdminListKey == NUsers + 1

\* a bug: one list key for every caller
ProblemsListKeyShared(user_id, is_admin) == AdminListKey

\* utils.problems_list_key
ProblemsListKey(user_id, is_admin) == IF is_admin THEN AdminListKey ELSE user_id

ListKeys == 0..AdminListKey

\* crud.get_problems / crud.get_problems_by_user_id, encoded
GetProblems == {Encode(i, problems[i]) : i \in {j \in ProblemIds : problems[j].exists}}
GetProblemsByUserId(user_id) ==
    {Encode(i, problems[i]) :
        i \in {j \in ProblemIds : problems[j].exists /\ problems[j].user_id = user_id}}

\* ------------------------------------------------------------------ payloads
\* A payload is the set of the paths of its fields: <<"id">>, <<"user", "password">>.
\* models.User and models.Problem columns
UserColumns ==
    {"id", "username", "password", "email", "is_admin", "is_verified", "telegram_id"}
ProblemColumns ==
    {"id", "title", "description", "date_created", "image_url", "status", "user_id", "admin_id"}
ServiceRecordColumns ==
    {"id", "work_done", "date_completed", "used_parts", "warranty_info", "problem_id", "user_id"}

\* vars(obj) of a loaded ORM object: its columns and the instance state
Vars(columns) == {<<k>> : k \in columns \cup {"_sa_instance_state"}}

\* the attributes of a loaded relationship, under its name
Nested(name, paths) == {<<name>> \o q : q \in paths}

LoadedUser == Vars(UserColumns)

\* a Problem fetched with selectinload(Problem.user); user is None once the
\* reporter is gone
LoadedProblem(user_id) ==
    Vars(ProblemColumns) \cup (IF user_id = 0 THEN {<<"user">>} ELSE Nested("user", LoadedUser))

\* jsonable_encoder of an ORM object: every attribute of vars(obj) but
\* those whose name starts with "_sa", relationships included
JsonableEncoder(paths) ==
    {q \in paths : \A i \in 1..Len(q) : q[i] # "_sa_instance_state"}

\* schemas.UserRead, schemas.ProblemRead, schemas.ServiceRecordRead
UserRead == {<<k>> : k \in {"id", "username", "email", "is_admin", "is_verified", "telegram_id"}}
ServiceRecordRead ==
    {<<k>> : k \in {"id", "work_done", "date_completed", "used_parts", "warranty_info",
                     "problem_id"}}
ProblemRead ==
    {<<k>> : k \in {"id", "title", "description", "image_url", "status", "date_created",
                     "user_id", "admin_id", "response"}}
        \cup Nested("service_record", ServiceRecordRead)

\* response_model=schema: the fields of the schema are kept, the rest dropped
ResponseModel(schema, paths) == paths \cap schema

\* a socket slot without connection
NoSocket ==
    [pc |-> "none", kind |-> "", uid |-> 0, adm |-> FALSE, id |-> 0,
     accepted |-> FALSE, code |-> 0, frame |-> "", seen |-> 0, msg |-> 0,
     targets |-> <<>>, got |-> <<>>,
     cred |-> [sub |-> 0, exp |-> 0, type |-> "", signed |-> FALSE]]

\* a token is its claims; equal claims give the same string
NoToken == [sub |-> 0, exp |-> 0]

\* ------------------------------------------------------------------ requests
Idle ==
    [op |-> "idle", pc |-> "idle", uid |-> 0, adm |-> FALSE, id |-> 0, owner |-> 0,
     data |-> {}, code |-> 0, body |-> {}, hit |-> FALSE, ruid |-> 0, rec |-> 0,
     tok |-> NoToken, why |-> "", ttl |-> 0, afterRev |-> FALSE,
     link |-> 0, tg |-> 0, vcode |-> 0, cached |-> 0, fields |-> {},
     username |-> 0, email |-> NoEmail, points |-> 0, top |-> <<>>,
     seen |-> 0, committed |-> FALSE, reuse |-> FALSE, dels |-> {},
     tasks |-> <<>>, tried |-> <<>>, password |-> 0,
     loop |-> "", cursor |-> 0, start |-> {}, sent |-> <<>>, lost |-> {},
     ovl |-> FALSE, taint |-> FALSE, afterDel |-> "no", raced |-> FALSE]

WriteOps == {"create_problem", "delete_problem", "assign_admin", "delete_user",
             "change_problem_status", "create_service_record"}
ReadOps == {"get_problems", "get_problem"}

InFlight(s) == req[s].pc \notin {"idle", "done"}
WriteInFlight == \E s \in Slots : InFlight(s) /\ req[s].op \in WriteOps

\* get_verified_user: the caller exists and is verified
Verified(u) == users[u].exists /\ users[u].is_verified

\* a request enters its handler with the dependency's snapshot of the caller
Enter(s, op, u, id) ==
    [Idle EXCEPT !.op = op, !.uid = u, !.adm = users[u].is_admin, !.id = id]

\* history: a write that starts marks every read in flight as overlapped
MarkReads(r) ==
    [t \in Slots |->
        IF InFlight(t) /\ r[t].op \in ReadOps THEN [r[t] EXCEPT !.ovl = TRUE] ELSE r[t]]

\* history: a GET /problems/{id} that starts marks every delete of that id in flight
MarkDeletes(r, id) ==
    [t \in Slots |->
        IF InFlight(t) /\ r[t].op = "delete_problem" /\ r[t].id = id
        THEN [r[t] EXCEPT !.raced = TRUE] ELSE r[t]]

GetInFlight(id) ==
    \E t \in Slots : InFlight(t) /\ req[t].op = "get_problem" /\ req[t].id = id

Respond(s, code, body) ==
    req' = [req EXCEPT ![s].pc = "done", ![s].code = code, ![s].body = body]

\* the response whose body has the given fields
RespondWith(s, code, fields) ==
    req' = [req EXCEPT ![s].pc = "done", ![s].code = code, ![s].fields = fields]

\* the sockets a ticket broadcast goes to: every admin socket and the
\* sockets of the ticket's reporter
Recipients(user_id) ==
    {admin_connections[k] : k \in DOMAIN admin_connections}
        \cup (IF user_id \in UserIds
              THEN {user_connections[user_id][k] : k \in DOMAIN user_connections[user_id]}
              ELSE {})

\* {"type": type, "data": jsonable_encoder(problem_data)} sent to each recipient
Envelopes(type, id, user_id) ==
    {[to |-> c, type |-> type, id |-> id,
      fields |-> Nested("data", JsonableEncoder(LoadedProblem(user_id)))] :
        c \in Recipients(user_id)}

wsRegistry == <<ws, active_connections, admin_connections, user_connections>>

Retire(s) ==
    /\ req[s].pc = "done"
    /\ req' = [req EXCEPT ![s] = Idle]
    /\ UNCHANGED <<serviceRecords, offTicket, users, problems, nextProblemId, listCache, detailCache, listRacy, deleted>>

\* ------------------------------------------------------------------ POST /problems
\* current_user = Depends(get_verified_user); crud.create_problem: insert and commit
CreateProblemStore(s, u, image) ==
    /\ req[s].pc = "idle"
    /\ Verified(u)
    /\ nextProblemId <= MaxProblems
    /\ problems' = [problems EXCEPT ![nextProblemId] = NewProblem(u)]
    /\ nextProblemId' = nextProblemId + 1
    /\ req' = [MarkReads(req) EXCEPT ![s] =
                  [Enter(s, "create_problem", u, nextProblemId) EXCEPT
                      !.pc = "del_user", !.owner = u, !.committed = TRUE, !.data = image]]
    /\ UNCHANGED <<serviceRecords, offTicket, users, listCache, detailCache, listRacy, deleted>>

\* the request without image
CreateProblemCommit(s, u) == CreateProblemStore(s, u, {})

\* a file name is its pieces between the dots; a piece is its lower-case
\* text and whether it holds an upper-case letter
NameParts == [text : {"photo", "png", "gif"}, cased : BOOLEAN]
FileNames == UNION {[1..n -> NameParts] : n \in 1..MaxNameParts}

\* allowed_ext, utils.py:206
AllowedExt == {[text |-> t, cased |-> FALSE] : t \in {"png", "jpg", "jpeg", "webp"}}

\* file.filename.split(".")[-1].lower()
Extension(filename) == [filename[Len(filename)] EXCEPT !.cased = FALSE]

\* utils.upload_file: None when the extension is not allowed, else the path
\* of the stored file
UploadFile(filename) == IF Extension(filename) \notin AllowedExt THEN {} ELSE {"uploads"}

\* crud.create_problem with an image: 415 when upload_file returned None,
\* before the row is added
CreateProblemUpload(s, u, filename) ==
    IF UploadFile(filename) = {}
    THEN /\ req[s].pc = "idle"
         /\ Verified(u)
         /\ nextProblemId <= MaxProblems
         /\ req' = [req EXCEPT ![s] =
                       [Enter(s, "create_problem", u, 0) EXCEPT
                           !.pc = "done", !.code = 415, !.data = {filename}]]
         /\ UNCHANGED <<users, ticketState, offTicket>>
    ELSE CreateProblemStore(s, u, {filename})

\* redis.delete(problems_list_key(owner, False))
DelUserList(s, op, next) ==
    /\ req[s].op = op /\ req[s].pc = "del_user"
    /\ listCache' = [listCache EXCEPT ![ProblemsListKey(req[s].owner, FALSE)] = None]
    /\ listRacy' = [listRacy EXCEPT ![ProblemsListKey(req[s].owner, FALSE)] = FALSE]
    /\ req' = [req EXCEPT ![s].pc = next, ![s].dels = @ \cup {"user"}]
    /\ UNCHANGED <<serviceRecords, offTicket, users, problems, nextProblemId, detailCache, deleted>>

\* redis.delete(problems_list_key(0, True))
DelAdminList(s, op, next) ==
    /\ req[s].op = op /\ req[s].pc = "del_admin"
    /\ listCache' = [listCache EXCEPT ![ProblemsListKey(0, TRUE)] = None]
    /\ listRacy' = [listRacy EXCEPT ![ProblemsListKey(0, TRUE)] = FALSE]
    /\ req' = [req EXCEPT ![s].pc = next, ![s].dels = @ \cup {"admin"}]
    /\ UNCHANGED <<serviceRecords, offTicket, users, problems, nextProblemId, detailCache, deleted>>

\* redis.delete(f"problem:{id}")
DelDetail(s, op, next, code, fields) ==
    /\ req[s].op = op /\ req[s].pc = "del_detail"
    /\ detailCache' = [detailCache EXCEPT ![req[s].id] = None]
    /\ req' = [req EXCEPT ![s].pc = next, ![s].code = code, ![s].fields = fields,
                          ![s].dels = @ \cup {"detail"}]
    /\ UNCHANGED <<serviceRecords, offTicket, users, problems, nextProblemId, listCache, listRacy, deleted>>

CreateProblemDelUser(s) == DelUserList(s, "create_problem", "del_admin")
CreateProblemDelAdmin(s) == DelAdminList(s, "create_problem", "broadcast")

\* manager.broadcast_new_problem, then the response
CreateProblemBroadcast(s) ==
    /\ req[s].op = "create_problem" /\ req[s].pc = "broadcast"
    /\ wsOut' = wsOut \cup Envelopes("new_problem", req[s].id, req[s].owner)
    /\ RespondWith(s, 200, ResponseModel(ProblemRead, JsonableEncoder(LoadedProblem(req[s].owner))))
    /\ UNCHANGED <<users, ticketState, authVars, tgVars, verification, wsRegistry, lateVars>>

CreateProblem(s) ==
    \/ \E u \in UserIds : CreateProblemCommit(s, u)
    \/ CreateProblemDelUser(s)
    \/ CreateProblemDelAdmin(s)
    \/ CreateProblemBroadcast(s)

CreateProblemImage(s) ==
    \/ \E u \in UserIds, filename \in FileNames : CreateProblemUpload(s, u, filename)
    \/ CreateProblem(s)

\* ------------------------------------------------------------------ GET /problems
\* current_user = Depends(get_verified_user);
\* cached = await redis.get(key); if cached: return json.loads(cached)
GetProblemsCacheGet(s, u) ==
    /\ req[s].pc = "idle"
    /\ Verified(u)
    /\ LET key == ProblemsListKey(u, users[u].is_admin)
           r == [Enter(s, "get_problems", u, 0) EXCEPT !.ovl = WriteInFlight]
       IN
       IF listCache[key] # None
       THEN req' = [req EXCEPT ![s] = [r EXCEPT !.pc = "done", !.code = 200,
                                                !.body = listCache[key][1], !.hit = TRUE,
                                                !.taint = listRacy[key]]]
       ELSE req' = [req EXCEPT ![s] = [r EXCEPT !.pc = "db_read"]]
    /\ UNCHANGED <<serviceRecords, offTicket, users, problems, nextProblemId, listCache, detailCache, listRacy, deleted>>

\* crud.get_problems(db) for an admin, crud.get_problems_by_user_id otherwise
GetProblemsDbRead(s) ==
    /\ req[s].op = "get_problems" /\ req[s].pc = "db_read"
    /\ req' = [req EXCEPT ![s].pc = "cache_set",
                          ![s].data = IF req[s].adm THEN GetProblems
                                      ELSE GetProblemsByUserId(req[s].uid)]
    /\ UNCHANGED <<serviceRecords, offTicket, users, problems, nextProblemId, listCache, detailCache, listRacy, deleted>>

\* await redis.set(key, json.dumps(serialized), ex=600); return serialized
GetProblemsCacheSet(s) ==
    /\ req[s].op = "get_problems" /\ req[s].pc = "cache_set"
    /\ LET key == ProblemsListKey(req[s].uid, req[s].adm) IN
       /\ listCache' = [listCache EXCEPT ![key] = Some(req[s].data)]
       /\ listRacy' = [listRacy EXCEPT ![key] = req[s].ovl]
    /\ Respond(s, 200, req[s].data)
    /\ UNCHANGED <<serviceRecords, offTicket, users, problems, nextProblemId, detailCache, deleted>>

GetProblemsList(s) ==
    \/ \E u \in UserIds : GetProblemsCacheGet(s, u)
    \/ GetProblemsDbRead(s)
    \/ GetProblemsCacheSet(s)

\* the 600 s lifetime of a list cache entry ends
ListCacheExpire(k) ==
    /\ listCache[k] # None
    /\ listCache' = [listCache EXCEPT ![k] = None]
    /\ listRacy' = [listRacy EXCEPT ![k] = FALSE]
    /\ UNCHANGED <<serviceRecords, offTicket, users, problems, nextProblemId, detailCache, req, deleted>>

\* ------------------------------------------------------------------ GET /problems/{id}
\* main.py:274, the check on a cache hit
CachedReadAllowed(u, adm, d) == adm \/ d.user_id = u

\* main.py:282-286, the check on a database read
ReadAllowed(u, adm, p) ==
    LET is_creator == p.user_id = u
        is_assigned_admin == adm /\ p.admin_id = u
        is_unassigned_admin == adm /\ p.admin_id = 0
    IN is_creator \/ is_assigned_admin \/ is_unassigned_admin

\* current_user = Depends(get_verified_user); cached = await redis.get(key)
GetProblemCacheGet(s, u, id) ==
    /\ req[s].pc = "idle"
    /\ Verified(u)
    /\ LET r == [Enter(s, "get_problem", u, id) EXCEPT
                    !.ovl = WriteInFlight, !.afterDel = deleted[id]]
           d == detailCache[id][1]
           marked == MarkDeletes(req, id)
       IN
       IF detailCache[id] # None
       THEN IF ~CachedReadAllowed(u, users[u].is_admin, d)
            THEN req' = [marked EXCEPT ![s] = [r EXCEPT !.pc = "done", !.code = 403, !.hit = TRUE]]
            ELSE req' = [marked EXCEPT ![s] = [r EXCEPT !.pc = "done", !.code = 200,
                                                       !.body = {d}, !.hit = TRUE]]
       ELSE req' = [marked EXCEPT ![s] = [r EXCEPT !.pc = "db_read"]]
    /\ UNCHANGED <<serviceRecords, offTicket, users, problems, nextProblemId, listCache, detailCache, listRacy, deleted>>

\* problem = await crud.get_problem(db, id)
GetProblemDbRead(s) ==
    /\ req[s].op = "get_problem" /\ req[s].pc = "db_read"
    /\ LET p == problems[req[s].id] IN
       IF ~p.exists THEN Respond(s, 404, {})
       ELSE IF ~ReadAllowed(req[s].uid, req[s].adm, p) THEN Respond(s, 403, {})
       ELSE req' = [req EXCEPT ![s].pc = "cache_set", ![s].data = {Encode(req[s].id, p)}]
    /\ UNCHANGED <<serviceRecords, offTicket, users, problems, nextProblemId, listCache, detailCache, listRacy, deleted>>

\* await redis.set(key, json.dumps(serialized), ex=600); return serialized
GetProblemCacheSet(s) ==
    /\ req[s].op = "get_problem" /\ req[s].pc = "cache_set"
    /\ detailCache' = [detailCache EXCEPT ![req[s].id] = Some(CHOOSE d \in req[s].data : TRUE)]
    /\ Respond(s, 200, req[s].data)
    /\ UNCHANGED <<serviceRecords, offTicket, users, problems, nextProblemId, listCache, listRacy, deleted>>

GetProblem(s) ==
    \/ \E u \in UserIds, id \in ProblemIds : GetProblemCacheGet(s, u, id)
    \/ GetProblemDbRead(s)
    \/ GetProblemCacheSet(s)

\* the 600 s lifetime of a detail cache entry ends
DetailCacheExpire(id) ==
    /\ detailCache[id] # None
    /\ detailCache' = [detailCache EXCEPT ![id] = None]
    /\ UNCHANGED <<serviceRecords, offTicket, users, problems, nextProblemId, listCache, req, listRacy, deleted>>

\* ------------------------------------------------------------------ DELETE /problems/{id}
\* main.py:304
DeleteAllowed(u, adm, p) == adm \/ p.user_id = u

\* current_user = Depends(get_verified_user);
\* problem = await crud.get_problem(db, id); 404 if absent; 403 unless admin or owner
DeleteProblemGet(s, u, id) ==
    /\ req[s].pc = "idle"
    /\ Verified(u)
    /\ LET p == problems[id]
           r == Enter(s, "delete_problem", u, id)
       IN
       IF ~p.exists
       THEN req' = [req EXCEPT ![s] = [r EXCEPT !.pc = "done", !.code = 404]]
       ELSE IF ~DeleteAllowed(u, users[u].is_admin, p)
       THEN req' = [req EXCEPT ![s] = [r EXCEPT !.pc = "done", !.code = 403]]
       ELSE req' = [MarkReads(req) EXCEPT ![s] =
                       [r EXCEPT !.pc = "del_user", !.owner = p.user_id,
                                 !.raced = GetInFlight(id)]]
    /\ UNCHANGED <<serviceRecords, offTicket, users, problems, nextProblemId, listCache, detailCache, listRacy, deleted>>

DeleteProblemDelUser(s) == DelUserList(s, "delete_problem", "del_admin")
DeleteProblemDelAdmin(s) == DelAdminList(s, "delete_problem", "del_detail")

\* a bug: the delete leaves problem:{id} in the cache
DeleteProblemKeepDetail(s) ==
    /\ req[s].op = "delete_problem" /\ req[s].pc = "del_detail"
    /\ req' = [req EXCEPT ![s].pc = "commit"]
    /\ UNCHANGED <<serviceRecords, offTicket, users, problems, nextProblemId, listCache, detailCache, listRacy, deleted>>

DeleteProblemDelDetail(s) == DelDetail(s, "delete_problem", "commit", 0, {})

\* return await crud.delete_problem(db, id): fetch again, delete and commit;
\* the relationship service_record has no delete cascade, so the unit of
\* work sets the record's problem_id to NULL
DeleteProblemCommit(s) ==
    /\ req[s].op = "delete_problem" /\ req[s].pc = "commit"
    /\ problems' = [problems EXCEPT ![req[s].id] = NoProblem]
    /\ deleted' = [deleted EXCEPT ![req[s].id] =
                      IF req[s].raced \/ deleted[req[s].id] = "raced" THEN "raced" ELSE "clean"]
    /\ serviceRecords' = [k \in DOMAIN serviceRecords |->
                             IF serviceRecords[k].problem_id = req[s].id
                             THEN [serviceRecords[k] EXCEPT !.problem_id = 0]
                             ELSE serviceRecords[k]]
    /\ req' = [req EXCEPT ![s].pc = "done", ![s].code = 200, ![s].committed = TRUE]
    /\ UNCHANGED <<offTicket, users, nextProblemId, listCache, detailCache, listRacy>>

DeleteProblem(s) ==
    \/ \E u \in UserIds, id \in ProblemIds : DeleteProblemGet(s, u, id)
    \/ DeleteProblemDelUser(s)
    \/ DeleteProblemDelAdmin(s)
    \/ DeleteProblemDelDetail(s)
    \/ DeleteProblemCommit(s)

\* ------------------------------------------------------------------ PATCH /problems/{id}/assign
\* a bug: the admin check is dropped
IsAdminAny(u) == Verified(u)

\* get_current_admin: a verified user with is_admin
IsAdmin(u) == Verified(u) /\ users[u].is_admin

\* crud.assign_admin: UPDATE problems SET admin_id, status WHERE id; commit;
\* get_problem; 404 if it matched no row
AssignAdminCommit(s, u, id) ==
    /\ req[s].pc = "idle"
    /\ IsAdmin(u)
    /\ LET p == problems[id]
           r == Enter(s, "assign_admin", u, id)
       IN
       IF ~p.exists
       THEN /\ req' = [req EXCEPT ![s] = [r EXCEPT !.pc = "done", !.code = 404]]
            /\ UNCHANGED problems
       ELSE /\ problems' = [problems EXCEPT ![id].admin_id = u, ![id].status = StatusInWork]
            /\ req' = [MarkReads(req) EXCEPT ![s] =
                          [r EXCEPT !.pc = "del_user", !.owner = p.user_id,
                                    !.committed = TRUE]]
    /\ UNCHANGED <<serviceRecords, offTicket, users, nextProblemId, listCache, detailCache, listRacy, deleted>>

AssignAdminDelUser(s) == DelUserList(s, "assign_admin", "del_admin")
AssignAdminDelAdmin(s) == DelAdminList(s, "assign_admin", "del_detail")
\* the route has no response_model: return new_assign encodes the ORM object
AssignAdminDelDetail(s) ==
    DelDetail(s, "assign_admin", "done", 200, JsonableEncoder(LoadedProblem(req[s].owner)))

AssignAdmin(s) ==
    \/ \E u \in UserIds, id \in ProblemIds : AssignAdminCommit(s, u, id)
    \/ AssignAdminDelUser(s)
    \/ AssignAdminDelAdmin(s)
    \/ AssignAdminDelDetail(s)

\* manager.broadcast_problem_update, then the response
BroadcastProblemUpdate(s, op) ==
    /\ req[s].op = op /\ req[s].pc = "broadcast"
    /\ wsOut' = wsOut \cup Envelopes("update_problem", req[s].id, req[s].owner)
    /\ RespondWith(s, 200, ResponseModel(ProblemRead, JsonableEncoder(LoadedProblem(req[s].owner))))
    /\ UNCHANGED <<users, ticketState, authVars, tgVars, verification, wsRegistry, lateVars>>

\* broadcast_new_problem and broadcast_problem_update one send at a time.
\* Both iterate self.admin_connections and then self.user_connections[user_id]
\* themselves, not copies, and are suspended in every send_text: the list
\* iterator keeps an index, and the lists change while it is suspended
BroadcastOps == {"create_problem", "change_problem_status", "create_service_record"}

AdminLeft(s) == req[s].loop # "user" /\ req[s].cursor < Len(admin_connections)
UserCursor(s) == IF req[s].loop = "user" THEN req[s].cursor ELSE 0
UserLeft(s) ==
    /\ ~AdminLeft(s)
    /\ req[s].owner \in UserIds
    /\ UserCursor(s) < Len(user_connections[req[s].owner])

\* the broadcast runs on to its next send_text: the envelope leaves, or the
\* send raises and the exception is printed
BroadcastSend(s, ok) ==
    /\ req[s].op \in BroadcastOps /\ req[s].pc = "broadcast"
    /\ AdminLeft(s) \/ UserLeft(s)
    /\ LET c == IF AdminLeft(s) THEN admin_connections[req[s].cursor + 1]
                ELSE user_connections[req[s].owner][UserCursor(s) + 1]
       IN /\ req' = [req EXCEPT
                        ![s].loop = IF AdminLeft(s) THEN "admin" ELSE "user",
                        ![s].cursor = IF AdminLeft(s) THEN req[s].cursor + 1
                                      ELSE UserCursor(s) + 1,
                        ![s].start = IF req[s].loop = "" THEN Recipients(req[s].owner) ELSE @,
                        ![s].sent = IF ok THEN Append(@, c) ELSE @,
                        ![s].lost = IF ok THEN @ ELSE @ \cup {c}]
          /\ wsOut' = IF ok
                      THEN wsOut \cup
                           {[to |-> c,
                             type |-> IF req[s].op = "create_problem"
                                      THEN "new_problem" ELSE "update_problem",
                             id |-> req[s].id,
                             fields |-> Nested("data",
                                               JsonableEncoder(LoadedProblem(req[s].owner)))]}
                      ELSE wsOut
    /\ UNCHANGED <<users, ticketState, authVars, tgVars, verification, wsRegistry, lateVars>>

\* both loops are through: the handler returns its response
BroadcastReturn(s) ==
    /\ req[s].op \in BroadcastOps /\ req[s].pc = "broadcast"
    /\ ~AdminLeft(s) /\ ~UserLeft(s)
    /\ req' = [req EXCEPT
                  ![s].pc = "done", ![s].code = 200,
                  ![s].start = IF req[s].loop = "" THEN Recipients(req[s].owner) ELSE @,
                  ![s].fields =
                      IF req[s].op = "create_service_record"
                      THEN ResponseModel(ServiceRecordRead,
                                         JsonableEncoder(Vars(ServiceRecordColumns)))
                      ELSE ResponseModel(ProblemRead,
                                         JsonableEncoder(LoadedProblem(req[s].owner)))]
    /\ UNCHANGED <<users, ticketState, offTicket>>

\* ------------------------------------------------------------------ PATCH /problems/{id}/status
\* the status strings a request body may carry
StatusInputs == {StatusNew, StatusInWork, StatusDone, StatusRejected}

\* a bug: status is a plain str
StatusAny == StatusInputs

\* schemas.ProblemUpdateStatus: Literal["виконано", "відмовлено"]
StatusUpdates == {StatusDone, StatusRejected}

\* background_tasks.add_task(fm.send_message, message) to the reporter and,
\* if user.telegram_id, add_task(send_tg_message, user.telegram_id, text)
Notices(about, id, user_id) ==
    {[kind |-> "mail", about |-> about, id |-> id, to |-> user_id]}
        \cup (IF users[user_id].telegram_id # 0
              THEN {[kind |-> "tg", about |-> about, id |-> id,
                     to |-> users[user_id].telegram_id]}
              ELSE {})

\* the same tasks in the order of their add_task calls: the request's
\* BackgroundTasks
NoticeTasks(about, id, user_id) ==
    <<[kind |-> "mail", about |-> about, id |-> id, to |-> user_id]>>
        \o (IF users[user_id].telegram_id # 0
            THEN <<[kind |-> "tg", about |-> about, id |-> id,
                    to |-> users[user_id].telegram_id]>>
            ELSE <<>>)

\* a bug: a failed send stays at the head of the list
AfterAttemptRetry(tasks, ok) == IF ok THEN Tail(tasks) ELSE tasks

\* the tasks left after one attempt of the first: send_tg_message swallows
\* its exception, fm.send_message raises and the later tasks of the request
\* are never run
AfterAttempt(tasks, ok) ==
    IF ok \/ Head(tasks).kind = "tg" THEN Tail(tasks) ELSE <<>>

\* the background tasks of a request run after its response, one attempt each
RunTask(s, ok) ==
    /\ req[s].pc = "done" /\ req[s].code = 200
    /\ req[s].tasks # <<>>
    /\ req' = [req EXCEPT ![s].tasks = AfterAttempt(req[s].tasks, ok),
                          ![s].tried = Append(@, [task |-> Head(req[s].tasks), ok |-> ok])]
    /\ UNCHANGED <<users, ticketState, authVars, tgVars, verification, wsVars, lateVars>>

\* the request is over when its background tasks have run
RetireNotified(s) ==
    /\ req[s].tasks = <<>>
    /\ Retire(s)

\* a bug: the row is written whether or not it is there
UpdateProblemStatusBlind(id, st) == [problems EXCEPT ![id].status = st]

\* crud.update_problem_status: UPDATE problems SET status WHERE id; commit
UpdateProblemStatus(id, st) ==
    IF problems[id].exists THEN [problems EXCEPT ![id].status = st] ELSE problems

\* admin = Depends(get_current_admin); crud.update_problem_status and its
\* get_problem; 404 if no row; the rejection mail reads updated.user, which
\* is None once the reporter is gone
\* the status update is saved and the ticket is read again, 404 without
\* it; a rejection adds the mail to the reporter and, when the reporter has
\* a chat linked, the bot message
ChangeProblemStatusSave(s, u, id, st) ==
    LET p == problems[id]
        r == [Enter(s, "change_problem_status", u, id) EXCEPT !.data = {st}]
    IN
    /\ problems' = UpdateProblemStatus(id, st)
    /\ IF ~p.exists
       THEN /\ req' = [req EXCEPT ![s] = [r EXCEPT !.pc = "done", !.code = 404]]
            /\ UNCHANGED outbox
       ELSE IF st = StatusRejected /\ p.user_id = 0
       THEN /\ req' = [MarkReads(req) EXCEPT ![s] =
                          [r EXCEPT !.pc = "done", !.code = 500, !.committed = TRUE]]
            /\ UNCHANGED outbox
       ELSE /\ req' = [MarkReads(req) EXCEPT ![s] =
                          [r EXCEPT !.pc = "del_detail", !.owner = p.user_id,
                                    !.committed = TRUE,
                                    !.body = Encode(id, UpdateProblemStatus(id, st)[id]),
                                    !.tasks = IF st = StatusRejected
                                              THEN NoticeTasks("rejected", id, p.user_id)
                                              ELSE <<>>]]
            /\ outbox' = IF st = StatusRejected
                         THEN outbox \cup Notices("rejected", id, p.user_id)
                         ELSE outbox

\* status_update: schemas.ProblemUpdateStatus = Body(...): a status outside
\* the Literal is a validation error, 422, before the handler body
ChangeProblemStatusCommit(s, u, id, st) ==
    /\ req[s].pc = "idle"
    /\ IsAdmin(u)
    /\ IF st \notin StatusUpdates
       THEN /\ req' = [req EXCEPT ![s] =
                          [Enter(s, "change_problem_status", u, id) EXCEPT
                              !.pc = "done", !.code = 422, !.data = {st}]]
            /\ UNCHANGED <<problems, outbox>>
       ELSE ChangeProblemStatusSave(s, u, id, st)
    /\ UNCHANGED <<serviceRecords, offOutbox, users, nextProblemId, listCache, detailCache, listRacy, deleted>>

ChangeProblemStatusDelDetail(s) == DelDetail(s, "change_problem_status", "del_user", 0, {})
ChangeProblemStatusDelUser(s) == DelUserList(s, "change_problem_status", "del_admin")
ChangeProblemStatusDelAdmin(s) == DelAdminList(s, "change_problem_status", "broadcast")
ChangeProblemStatusBroadcast(s) == BroadcastProblemUpdate(s, "change_problem_status")

ChangeProblemStatus(s) ==
    \/ \E u \in UserIds, id \in ProblemIds, st \in StatusInputs :
          ChangeProblemStatusCommit(s, u, id, st)
    \/ ChangeProblemStatusDelDetail(s)
    \/ ChangeProblemStatusDelUser(s)
    \/ ChangeProblemStatusDelAdmin(s)
    \/ ChangeProblemStatusBroadcast(s)

\* ------------------------------------------------------------------ POST /service-record
\* a bug: the record takes the user_id of the request body
RecordOwnerFromBody(problem_user_id, body_user_id) == body_user_id

\* crud.create_service_record: **record.model_dump(exclude={"user_id"}),
\* user_id=problem.user_id
RecordOwner(problem_user_id, body_user_id) == problem_user_id

\* admin = Depends(get_current_admin); crud.create_service_record begins:
\* problem = await get_problem.  Without a ticket it returns None and the
\* handler fails on new_service_record.problem_id
CreateServiceRecordGet(s, u, id, ruid) ==
    /\ req[s].pc = "idle"
    /\ IsAdmin(u)
    /\ LET p == problems[id]
           r == [Enter(s, "create_service_record", u, id) EXCEPT !.ruid = ruid]
       IN
       req' = [req EXCEPT ![s] =
                  IF ~p.exists THEN [r EXCEPT !.pc = "done", !.code = 500, !.why = "no_ticket"]
                  ELSE [r EXCEPT !.pc = "commit", !.owner = p.user_id,
                                 !.data = {Encode(id, p)}]]
    /\ UNCHANGED <<serviceRecords, offTicket, users, problems, nextProblemId, listCache, detailCache, listRacy, deleted>>

\* db.add(db_record); update_problem_status(... "виконано") flushes the
\* insert and commits it with the update.  When the ticket has been deleted
\* meanwhile the insert breaks the foreign key where the database enforces
\* it (500) and leaves a record without ticket where it does not
CreateServiceRecordCommit(s) ==
    /\ req[s].op = "create_service_record" /\ req[s].pc = "commit"
    /\ Len(serviceRecords) < MaxRecords
    /\ LET id == req[s].id
           row == [problem_id |-> id,
                   user_id |-> RecordOwner(req[s].owner, req[s].ruid)]
       IN
       \/ /\ ~problems[id].exists
          /\ req' = [req EXCEPT ![s].pc = "done", ![s].code = 500]
          /\ UNCHANGED <<serviceRecords, problems>>
       \/ /\ serviceRecords' = Append(serviceRecords, row)
          /\ problems' = UpdateProblemStatus(id, StatusDone)
          /\ req' = [MarkReads(req) EXCEPT ![s].pc = "reload", ![s].rec = Len(serviceRecords) + 1,
                                           ![s].committed = TRUE]
    /\ UNCHANGED <<offTicket, users, nextProblemId, listCache, detailCache, listRacy, deleted>>

\* the record is loaded with its user and problem; the handler's
\* crud.get_problem: 404 without ticket; new_service_record.user is None
\* when the ticket had lost its reporter
CreateServiceRecordReload(s) ==
    /\ req[s].op = "create_service_record" /\ req[s].pc = "reload"
    /\ LET sent == problems[req[s].id].exists /\ serviceRecords[req[s].rec].user_id # 0 IN
       /\ req' = [req EXCEPT ![s] =
                     IF ~problems[req[s].id].exists THEN [@ EXCEPT !.pc = "done", !.code = 404]
                     ELSE IF serviceRecords[req[s].rec].user_id = 0
                     THEN [@ EXCEPT !.pc = "done", !.code = 500]
                     ELSE [@ EXCEPT !.pc = "del_user", !.owner = problems[req[s].id].user_id,
                                    !.tasks = NoticeTasks("done", req[s].id,
                                                          serviceRecords[req[s].rec].user_id)]]
       /\ outbox' = IF sent
                    THEN outbox \cup Notices("done", req[s].id, serviceRecords[req[s].rec].user_id)
                    ELSE outbox
    /\ UNCHANGED <<serviceRecords, offOutbox, users, problems, nextProblemId, listCache, detailCache, listRacy, deleted>>

CreateServiceRecordDelUser(s) == DelUserList(s, "create_service_record", "del_admin")
CreateServiceRecordDelAdmin(s) == DelAdminList(s, "create_service_record", "del_detail")
CreateServiceRecordDelDetail(s) == DelDetail(s, "create_service_record", "broadcast", 0, {})

\* manager.broadcast_problem_update(problem); return new_service_record
CreateServiceRecordBroadcast(s) ==
    /\ req[s].op = "create_service_record" /\ req[s].pc = "broadcast"
    /\ wsOut' = wsOut \cup Envelopes("update_problem", req[s].id, req[s].owner)
    /\ RespondWith(s, 200, ResponseModel(ServiceRecordRead,
                                        JsonableEncoder(Vars(ServiceRecordColumns))))
    /\ UNCHANGED <<users, ticketState, authVars, tgVars, verification, wsRegistry, lateVars>>

CreateServiceRecord(s) ==
    \/ \E u \in UserIds, id \in ProblemIds, ruid \in UserIds :
          CreateServiceRecordGet(s, u, id, ruid)
    \/ CreateServiceRecordCommit(s)
    \/ CreateServiceRecordReload(s)
    \/ CreateServiceRecordDelUser(s)
    \/ CreateServiceRecordDelAdmin(s)
    \/ CreateServiceRecordDelDetail(s)
    \/ CreateServiceRecordBroadcast(s)

\* ------------------------------------------------------------------ access tokens
\* security.create_access_token: exp is the issue time plus the lifetime
CreateAccessToken(sub) == [sub |-> sub, exp |-> now + AccessTokenExpire]

\* POST /login: authenticate_user finds the account and a token is issued
Login(u) ==
    /\ users[u].exists
    /\ Cardinality(tokens \cup {CreateAccessToken(u)}) <= MaxTokens
    /\ tokens' = tokens \cup {CreateAccessToken(u)}
    /\ UNCHANGED <<users, req, ticketState, now, blacklist, revoked, offAuth>>

\* a second passes
Tick ==
    /\ now < MaxTime
    /\ now' = now + 1
    /\ UNCHANGED <<users, req, ticketState, tokens, blacklist, revoked, offAuth>>

\* redis.get(f"blacklist:{token}"): an entry set with ex=ttl during second n
\* is there throughout the seconds before n + ttl and gone after second n + ttl
IsBlacklisted(tok) == \E e \in blacklist : e.token = tok /\ now <= e.until

\* the entry runs out at some moment of second e.until
BlacklistExpire(e) ==
    /\ e \in blacklist
    /\ now >= e.until
    /\ blacklist' = blacklist \ {e}
    /\ UNCHANGED <<users, req, ticketState, now, tokens, revoked, offAuth>>

\* jwt.decode: the token is refused once exp < now
Expired(tok) == tok.exp < now

\* utils.get_current_user, up to its database read: the blacklist lookup,
\* then the decoding
GetCurrentUserCheck(s, op, tok) ==
    /\ req[s].pc = "idle"
    /\ tok \in tokens
    /\ LET r == [Idle EXCEPT !.op = op, !.tok = tok, !.afterRev = tok \in revoked]
       IN
       req' = [req EXCEPT ![s] =
                  IF IsBlacklisted(tok)
                  THEN [r EXCEPT !.pc = "done", !.code = 401, !.why = "blacklist"]
                  ELSE IF Expired(tok)
                  THEN [r EXCEPT !.pc = "done", !.code = 401, !.why = "decode"]
                  ELSE [r EXCEPT !.pc = "lookup"]]
    /\ UNCHANGED <<users, ticketState, offTicket>>

\* crud.get_user_by_id(db, int(sub)) is None
NoSuchUser(tok) == ~users[tok.sub].exists

\* ------------------------------------------------------------------ POST /auth/refresh
\* the clock up to a later second than Tick reaches
LateTick ==
    /\ now < MaxLateTime
    /\ now' = now + 1
    /\ UNCHANGED <<users, req, ticketState, tokens, blacklist, revoked, offAuth>>

\* the access token as the string a client holds: signed, without type claim
AccessJwt(tok) == [sub |-> tok.sub, exp |-> tok.exp, type |-> "", signed |-> TRUE]

\* security.create_refresh_token, minted by login beside the access token:
\* the same subject, type "refresh", a longer lifetime
RefreshJwt(tok) ==
    [sub |-> tok.sub, exp |-> tok.exp + RefreshTokenExtra, type |-> "refresh", signed |-> TRUE]

\* a token a client has altered or made up: its signature does not verify
Tampered(jwt) == {[sub |-> u, exp |-> jwt.exp, type |-> "refresh", signed |-> FALSE] : u \in UserIds}

\* jwt.decode(token, SECRET_KEY, algorithms=[ALGORITHM]) returns the
\* payload; JWTError for a bad signature and after exp
JwtDecode(jwt) == jwt.signed /\ jwt.exp >= now

\* a bug: every type passes
AnyType(jwt) == TRUE

\* payload.get("type") != "refresh": 401
IsRefresh(jwt) == jwt.type = "refresh"

\* refresh_access_token: decode, type, crud.get_user_by_id, then the new
\* access token for str(user.id); every refusal is a 401
RefreshAccessToken(s, jwt) ==
    /\ req[s].pc = "idle"
    /\ LET r == [Idle EXCEPT !.op = "refresh", !.data = {jwt}, !.pc = "done", !.code = 401] IN
       req' = [req EXCEPT ![s] =
                  IF ~JwtDecode(jwt) THEN [r EXCEPT !.why = "Refresh token expired"]
                  ELSE IF ~IsRefresh(jwt) THEN [r EXCEPT !.why = "Invalid token type"]
                  ELSE IF ~users[jwt.sub].exists THEN [r EXCEPT !.why = "User not found"]
                  ELSE [r EXCEPT !.code = 200, !.uid = jwt.sub,
                                 !.tok = CreateAccessToken(jwt.sub),
                                 !.fields = {"access_token", "token_type"}]]
    /\ UNCHANGED <<users, ticketState, offTicket>>

\* what a client can present: the tokens of a login, or an altered one
Presented == UNION {{AccessJwt(tok), RefreshJwt(tok)} \cup Tampered(RefreshJwt(tok)) : tok \in tokens}

Refresh(s) == \E jwt \in Presented : RefreshAccessToken(s, jwt)

\* ------------------------------------------------------------------ the two authentication dependencies
\* redis.get(f"blacklist:{token}") for the string a client presents: the
\* entries are keyed by the access tokens that DELETE /users/me carried
BlacklistedJwt(jwt) ==
    jwt = AccessJwt([sub |-> jwt.sub, exp |-> jwt.exp])
        /\ IsBlacklisted([sub |-> jwt.sub, exp |-> jwt.exp])

\* utils.get_current_user on a presented string: 401 for a blacklisted one,
\* for one that does not decode and for one without user, 0 when it
\* returns the user
BearerAuth(jwt) ==
    IF BlacklistedJwt(jwt) THEN 401
    ELSE IF ~JwtDecode(jwt) THEN 401
    ELSE IF ~users[jwt.sub].exists THEN 401
    ELSE 0

\* utils.get_user_by_token: the user id, 0 for None
GetUserByToken(jwt) ==
    IF ~JwtDecode(jwt) THEN 0
    ELSE IF ~users[jwt.sub].exists THEN 0
    ELSE jwt.sub

\* GET /users/me with a presented string as bearer credential
BearerRequest(s, jwt) ==
    /\ req[s].pc = "idle"
    /\ req' = [req EXCEPT ![s] =
                  IF BearerAuth(jwt) # 0
                  THEN [Idle EXCEPT !.op = "bearer", !.pc = "done", !.code = BearerAuth(jwt),
                                    !.data = {jwt}]
                  ELSE [Idle EXCEPT !.op = "bearer", !.pc = "done", !.code = 200,
                                    !.data = {jwt}, !.uid = jwt.sub,
                                    !.fields = ResponseModel(UserRead,
                                                             JsonableEncoder(LoadedUser))]]
    /\ UNCHANGED <<users, ticketState, offTicket>>

\* utils.get_current_user_ws on the token query parameter of
\* /ws/problems/notifications: WebSocketException(1008) when
\* get_user_by_token returned None
GetCurrentUserWs(c, jwt) ==
    /\ ws[c].pc = "none"
    /\ ws' = [ws EXCEPT ![c] =
                 IF GetUserByToken(jwt) = 0
                 THEN [NoSocket EXCEPT !.pc = "closed", !.kind = "notify", !.code = 1008,
                                       !.cred = jwt]
                 ELSE [NoSocket EXCEPT !.pc = "accept", !.kind = "notify",
                                       !.uid = GetUserByToken(jwt),
                                       !.adm = users[GetUserByToken(jwt)].is_admin,
                                       !.cred = jwt]]
    /\ UNCHANGED <<users, req, ticketState, offWs, active_connections, admin_connections,
                   user_connections, wsOut>>

\* ------------------------------------------------------------------ GET /users/me
\* response_model=schemas.UserRead
ProfileLookup(s) ==
    /\ req[s].op = "profile" /\ req[s].pc = "lookup"
    /\ req' = [req EXCEPT ![s] =
                  IF NoSuchUser(req[s].tok)
                  THEN [@ EXCEPT !.pc = "done", !.code = 401, !.why = "nouser"]
                  ELSE [@ EXCEPT !.pc = "done", !.code = 200, !.uid = req[s].tok.sub,
                                 !.fields = ResponseModel(UserRead, JsonableEncoder(LoadedUser))]]
    /\ UNCHANGED <<users, ticketState, offTicket>>

Profile(s) ==
    \/ \E tok \in tokens : GetCurrentUserCheck(s, "profile", tok)
    \/ ProfileLookup(s)

\* ------------------------------------------------------------------ DELETE /users/me
\* a bug: the blacklist entry is a second short
BlacklistTtlShort(exp, t) == exp - t - 1

\* ttl = exp - int(datetime.now(timezone.utc).timestamp())
BlacklistTtl(exp, t) == exp - t

\* get_current_user ends, the handler computes ttl
DeleteUserLookup(s) ==
    /\ req[s].op = "delete_user" /\ req[s].pc = "lookup"
    /\ LET tok == req[s].tok
           ttl == BlacklistTtl(tok.exp, now)
       IN
       req' = IF NoSuchUser(tok)
              THEN [req EXCEPT ![s].pc = "done", ![s].code = 401, ![s].why = "nouser"]
              ELSE [MarkReads(req) EXCEPT
                        ![s].pc = IF ttl > 0 THEN "blacklist_set" ELSE "del_user",
                        ![s].ttl = ttl, ![s].uid = tok.sub, ![s].owner = tok.sub,
                        ![s].adm = users[tok.sub].is_admin]
    /\ UNCHANGED <<users, ticketState, offTicket>>

\* redis.set(f"blacklist:{token}", "1", ex=ttl)
DeleteUserBlacklist(s) ==
    /\ req[s].op = "delete_user" /\ req[s].pc = "blacklist_set"
    /\ blacklist' = {e \in blacklist : e.token # req[s].tok}
                        \cup {[token |-> req[s].tok, until |-> now + req[s].ttl]}
    /\ req' = [req EXCEPT ![s].pc = "del_user"]
    /\ UNCHANGED <<users, ticketState, now, tokens, revoked, offAuth>>

DeleteUserDelUser(s) == DelUserList(s, "delete_user", "del_admin")
DeleteUserDelAdmin(s) == DelAdminList(s, "delete_user", "commit")

\* return await crud.delete_user: db.delete(user) and commit, the deleted
\* object is the response (no response_model).  No relationship of User
\* cascades, so the unit of work sets the foreign keys that point at the
\* user to NULL
NullifyUser(rows, uid) ==
    [i \in DOMAIN rows |->
        IF rows[i].exists
        THEN [rows[i] EXCEPT !.user_id = IF @ = uid THEN 0 ELSE @,
                             !.admin_id = IF @ = uid THEN 0 ELSE @]
        ELSE rows[i]]

DeleteUserCommit(s) ==
    /\ req[s].op = "delete_user" /\ req[s].pc = "commit"
    /\ users' = [users EXCEPT ![req[s].uid] = NoUser]
    /\ problems' = NullifyUser(problems, req[s].uid)
    /\ serviceRecords' = [k \in DOMAIN serviceRecords |->
                             IF serviceRecords[k].user_id = req[s].uid
                             THEN [serviceRecords[k] EXCEPT !.user_id = 0]
                             ELSE serviceRecords[k]]
    /\ revoked' = revoked \cup {req[s].tok}
    /\ RespondWith(s, 200, IF users[req[s].uid].exists THEN JsonableEncoder(LoadedUser) ELSE {})
    /\ UNCHANGED <<nextProblemId, listCache, detailCache, listRacy, deleted,
                   now, tokens, blacklist, offAuth>>

DeleteUser(s) ==
    \/ \E tok \in tokens : GetCurrentUserCheck(s, "delete_user", tok)
    \/ DeleteUserLookup(s)
    \/ DeleteUserBlacklist(s)
    \/ DeleteUserDelUser(s)
    \/ DeleteUserDelAdmin(s)
    \/ DeleteUserCommit(s)

\* ------------------------------------------------------------------ Telegram link
\* POST /users/telegram/generate-link: token = str(uuid.uuid4())[:8], a fresh
\* value; redis.set(f"tg_link:{token}", current_user.id, ex=600)
GenerateTgLink(u) ==
    /\ Verified(u)
    /\ nextLink <= MaxLinks
    /\ tgLinks' = [tgLinks EXCEPT ![nextLink] = u]
    /\ nextLink' = nextLink + 1
    /\ UNCHANGED <<users, req, ticketState, confirms, offTg>>

\* the entry runs out after its 600 seconds
TgLinkExpire(t) ==
    /\ tgLinks[t] # 0
    /\ tgLinks' = [tgLinks EXCEPT ![t] = 0]
    /\ UNCHANGED <<users, req, ticketState, nextLink, confirms, offTg>>

\* crud.get_user_by_telegram_id
GetUserByTelegramId(tg) == {u \in UserIds : users[u].exists /\ users[u].telegram_id = tg}

\* a bug: telegram_id without its unique index
TelegramIdAny(u, tg) == TRUE

\* models.User.telegram_id is unique=True: the commit of user u with tg
\* passes only if no other row holds tg
TelegramIdUnique(u, tg) == GetUserByTelegramId(tg) \subseteq {u}

\* POST /users/telegram/confirm, no authentication:
\* crud.get_user_by_telegram_id(db, data.telegram_id), 400 if there is one
ConfirmTgLinkCheck(s, t, tg) ==
    /\ req[s].pc = "idle"
    /\ LET r == [Idle EXCEPT !.op = "confirm_tg_link", !.link = t, !.tg = tg]
       IN
       req' = [req EXCEPT ![s] =
                  IF GetUserByTelegramId(tg) # {}
                  THEN [r EXCEPT !.pc = "done", !.code = 400, !.why = "linked"]
                  ELSE [r EXCEPT !.pc = "get_link"]]
    /\ UNCHANGED <<users, ticketState, offTicket>>

\* redis.get(f"tg_link:{data.token}"), 400 if there is none
ConfirmTgLinkGet(s) ==
    /\ req[s].op = "confirm_tg_link" /\ req[s].pc = "get_link"
    /\ req' = [req EXCEPT ![s] =
                  IF tgLinks[req[s].link] = 0
                  THEN [@ EXCEPT !.pc = "done", !.code = 400, !.why = "nolink"]
                  ELSE [@ EXCEPT !.pc = "commit", !.uid = tgLinks[req[s].link]]]
    /\ UNCHANGED <<users, ticketState, offTicket>>

\* user = crud.get_user_by_id; user.telegram_id = data.telegram_id; commit.
\* Without the user the assignment fails, against the unique index the
\* commit fails; both are a 500
ConfirmTgLinkCommit(s) ==
    /\ req[s].op = "confirm_tg_link" /\ req[s].pc = "commit"
    /\ LET u == req[s].uid
           tg == req[s].tg
       IN
       IF ~users[u].exists
       THEN /\ req' = [req EXCEPT ![s].pc = "done", ![s].code = 500, ![s].why = "nouser"]
            /\ UNCHANGED users
       ELSE IF ~TelegramIdUnique(u, tg)
       THEN /\ req' = [req EXCEPT ![s].pc = "done", ![s].code = 500, ![s].why = "integrity"]
            /\ UNCHANGED users
       ELSE /\ users' = [users EXCEPT ![u].telegram_id = tg]
            /\ req' = [req EXCEPT ![s].pc = "del_link"]
    /\ UNCHANGED <<ticketState, offTicket>>

\* redis.delete(f"tg_link:{data.token}"), then the response
ConfirmTgLinkDelete(s) ==
    /\ req[s].op = "confirm_tg_link" /\ req[s].pc = "del_link"
    /\ tgLinks' = [tgLinks EXCEPT ![req[s].link] = 0]
    /\ confirms' = [confirms EXCEPT ![req[s].link] = IF @ < 2 THEN @ + 1 ELSE @]
    /\ Respond(s, 200, {})
    /\ UNCHANGED <<users, ticketState, nextLink, offTg>>

ConfirmTgLink(s) ==
    \/ \E t \in LinkIds, tg \in ChatIds : ConfirmTgLinkCheck(s, t, tg)
    \/ ConfirmTgLinkGet(s)
    \/ ConfirmTgLinkCommit(s)
    \/ ConfirmTgLinkDelete(s)

\* GET /users/telegram/check/{telegram_id}
CheckTgLink(s, tg) ==
    /\ req[s].pc = "idle"
    /\ req' = [req EXCEPT ![s] =
                  [Idle EXCEPT !.op = "check_tg_link", !.tg = tg, !.pc = "done", !.code = 200,
                               !.hit = GetUserByTelegramId(tg) # {}]]
    /\ UNCHANGED <<users, ticketState, offTicket>>

\* PATCH /users/telegram/unlink: current_user = Depends(get_verified_user),
\* old_tg_id = current_user.telegram_id
UnlinkTgAuth(s, u) ==
    /\ req[s].pc = "idle"
    /\ Verified(u)
    /\ req' = [req EXCEPT ![s] =
                  [Enter(s, "unlink_tg", u, 0) EXCEPT !.pc = "commit",
                                                      !.tg = users[u].telegram_id]]
    /\ UNCHANGED <<users, ticketState, offTicket>>

\* crud.unlink_user_tg: user.telegram_id = None; commit; refresh; the ORM
\* object is the response (no response_model)
UnlinkTgCommit(s) ==
    /\ req[s].op = "unlink_tg" /\ req[s].pc = "commit"
    /\ users' = IF users[req[s].uid].exists
                THEN [users EXCEPT ![req[s].uid].telegram_id = 0] ELSE users
    /\ RespondWith(s, 200, IF users[req[s].uid].exists THEN JsonableEncoder(LoadedUser) ELSE {})
    /\ UNCHANGED <<ticketState, offTicket>>

UnlinkTg(s) ==
    \/ \E u \in UserIds : UnlinkTgAuth(s, u)
    \/ UnlinkTgCommit(s)

\* ------------------------------------------------------------------ email verification
\* the entry verification:{user_id} runs out after its 600 seconds
CodeExpire(u) ==
    /\ verification[u] # 0
    /\ verification' = [verification EXCEPT ![u] = 0]
    /\ UNCHANGED <<users, req, ticketState, offVerify>>

\* background_tasks.add_task(fm.send_message, message): the mail with the code
CodeMail(u, code) == <<[kind |-> "mail", about |-> "code", id |-> code, to |-> u]>>

\* POST /resend-code: current_user = Depends(get_current_user);
\* code = await redis.get(...); a new code is generated if there is none
ResendCodeGet(s, u, fresh) ==
    /\ req[s].pc = "idle"
    /\ users[u].exists
    /\ LET r == Enter(s, "resend_code", u, 0)
       IN
       req' = [req EXCEPT ![s] =
                  IF verification[u] = 0
                  THEN [r EXCEPT !.pc = "set_code", !.vcode = fresh]
                  ELSE [r EXCEPT !.pc = "done", !.code = 200, !.vcode = verification[u],
                                 !.tasks = CodeMail(u, verification[u])]]
    /\ UNCHANGED <<users, ticketState, offTicket>>

\* redis.set(f"verification:{id}", code, ex=600); the mail goes out in the background
ResendCodeSet(s) ==
    /\ req[s].op = "resend_code" /\ req[s].pc = "set_code"
    /\ verification' = [verification EXCEPT ![req[s].uid] = req[s].vcode]
    /\ req' = [req EXCEPT ![s].pc = "done", ![s].code = 200,
                          ![s].tasks = CodeMail(req[s].uid, req[s].vcode)]
    /\ UNCHANGED <<users, ticketState, offVerify>>

ResendCode(s) ==
    \/ \E u \in UserIds, fresh \in Codes : ResendCodeGet(s, u, fresh)
    \/ ResendCodeSet(s)

\* a bug: every submitted code passes
CodeAccepted(cached_code, code) == cached_code # 0

\* verify_email: cached_code is not None and cached_code == data.code
CodeMatches(cached_code, code) == cached_code # 0 /\ cached_code = code

\* POST /verify-email: current_user = Depends(get_current_user);
\* if current_user.is_verified the handler answers at once
VerifyEmailAuth(s, u, code) ==
    /\ req[s].pc = "idle"
    /\ users[u].exists
    /\ LET r == [Enter(s, "verify_email", u, 0) EXCEPT !.vcode = code]
       IN
       req' = [req EXCEPT ![s] =
                  IF users[u].is_verified
                  THEN [r EXCEPT !.pc = "done", !.code = 200, !.why = "already"]
                  ELSE [r EXCEPT !.pc = "get_code"]]
    /\ UNCHANGED <<users, ticketState, offTicket>>

\* cached_code = await redis.get(f"verification:{id}"); 400 when it is None
\* and when it differs from data.code
VerifyEmailGet(s) ==
    /\ req[s].op = "verify_email" /\ req[s].pc = "get_code"
    /\ LET cached_code == verification[req[s].uid]
       IN
       req' = [req EXCEPT ![s] =
                  IF cached_code = 0
                  THEN [@ EXCEPT !.pc = "done", !.code = 400, !.why = "expired"]
                  ELSE IF ~CodeMatches(cached_code, req[s].vcode)
                  THEN [@ EXCEPT !.pc = "done", !.code = 400, !.why = "invalid",
                                 !.cached = cached_code]
                  ELSE [@ EXCEPT !.pc = "verify", !.cached = cached_code]]
    /\ UNCHANGED <<users, ticketState, offTicket>>

\* crud.verify_user: user.is_verified = True; commit (nothing if the user is gone)
VerifyEmailCommit(s) ==
    /\ req[s].op = "verify_email" /\ req[s].pc = "verify"
    /\ users' = IF users[req[s].uid].exists
                THEN [users EXCEPT ![req[s].uid].is_verified = TRUE] ELSE users
    /\ req' = [req EXCEPT ![s].pc = "del_code"]
    /\ UNCHANGED <<ticketState, offTicket>>

\* redis.delete(f"verification:{id}"), then the response
VerifyEmailDelete(s) ==
    /\ req[s].op = "verify_email" /\ req[s].pc = "del_code"
    /\ verification' = [verification EXCEPT ![req[s].uid] = 0]
    /\ req' = [req EXCEPT ![s].pc = "done", ![s].code = 200, ![s].why = "verified"]
    /\ UNCHANGED <<users, ticketState, offVerify>>

VerifyEmail(s) ==
    \/ \E u \in UserIds, code \in Codes : VerifyEmailAuth(s, u, code)
    \/ VerifyEmailGet(s)
    \/ VerifyEmailCommit(s)
    \/ VerifyEmailDelete(s)

\* ------------------------------------------------------------------ POST /users/makeadmin
\* a bug: the route depends on get_current_user only
MakeAdminAuthAny(s, u) ==
    /\ req[s].pc = "idle"
    /\ users[u].exists
    /\ req' = [req EXCEPT ![s] = [Enter(s, "make_admin", u, 0) EXCEPT !.pc = "commit"]]
    /\ UNCHANGED <<users, ticketState, offTicket>>

\* current_user = Depends(get_verified_user)
MakeAdminAuth(s, u) ==
    /\ req[s].pc = "idle"
    /\ Verified(u)
    /\ req' = [req EXCEPT ![s] = [Enter(s, "make_admin", u, 0) EXCEPT !.pc = "commit"]]
    /\ UNCHANGED <<users, ticketState, offTicket>>

\* crud.make_admin: user.is_admin = True; commit; refresh; the ORM object is
\* the response (no response_model), None when the user is gone
MakeAdminCommit(s) ==
    /\ req[s].op = "make_admin" /\ req[s].pc = "commit"
    /\ users' = IF users[req[s].uid].exists
                THEN [users EXCEPT ![req[s].uid].is_admin = TRUE] ELSE users
    /\ RespondWith(s, 200, IF users[req[s].uid].exists THEN JsonableEncoder(LoadedUser) ELSE {})
    /\ UNCHANGED <<ticketState, offTicket>>

MakeAdmin(s) ==
    \/ \E u \in UserIds : MakeAdminAuth(s, u)
    \/ MakeAdminCommit(s)

\* ------------------------------------------------------------------ /ws/problems/notifications
\* get_current_user_ws: the token decodes and its user exists, otherwise
\* WebSocketException(1008) refuses the handshake
NotifyConnect(c, u) ==
    /\ ws[c].pc = "none"
    /\ ws' = [ws EXCEPT ![c] =
                 IF users[u].exists
                 THEN [NoSocket EXCEPT !.pc = "accept", !.kind = "notify", !.uid = u,
                                       !.adm = users[u].is_admin]
                 ELSE [NoSocket EXCEPT !.pc = "closed", !.kind = "notify", !.uid = u,
                                       !.code = 1008]]
    /\ UNCHANGED <<users, req, ticketState, offWs, active_connections, admin_connections,
                   user_connections, wsOut>>

\* manager.connect_global: await websocket.accept(), then the socket is registered
NotifyAccept(c) ==
    /\ ws[c].kind = "notify" /\ ws[c].pc = "accept"
    /\ ws' = [ws EXCEPT ![c].pc = "open", ![c].accepted = TRUE]
    /\ IF ws[c].adm
       THEN /\ admin_connections' = Append(admin_connections, c)
            /\ UNCHANGED user_connections
       ELSE /\ user_connections' = [user_connections EXCEPT ![ws[c].uid] = Append(@, c)]
            /\ UNCHANGED admin_connections
    /\ UNCHANGED <<users, req, ticketState, offWs, active_connections, wsOut>>

\* list.remove(websocket): the first occurrence leaves the list
Remove(list, c) ==
    LET at == {i \in DOMAIN list : list[i] = c} IN
    IF at = {} THEN list
    ELSE LET i == CHOOSE k \in at : \A j \in at : k <= j
         IN SubSeq(list, 1, i - 1) \o SubSeq(list, i + 1, Len(list))

\* WebSocketDisconnect in the receive loop: manager.disconnect_global
NotifyDisconnect(c) ==
    /\ ws[c].kind = "notify" /\ ws[c].pc = "open"
    /\ ws' = [ws EXCEPT ![c].pc = "closed", ![c].code = 1000]
    /\ IF ws[c].adm
       THEN /\ admin_connections' = Remove(admin_connections, c)
            /\ UNCHANGED user_connections
       ELSE /\ user_connections' = [user_connections EXCEPT ![ws[c].uid] = Remove(@, c)]
            /\ UNCHANGED admin_connections
    /\ UNCHANGED <<users, req, ticketState, offWs, active_connections, wsOut>>

Notifications(c) ==
    \/ \E u \in UserIds : NotifyConnect(c, u)
    \/ NotifyAccept(c)
    \/ NotifyDisconnect(c)

\* the slot of a closed socket is free again
WsRetire(c) ==
    /\ ws[c].pc = "closed"
    /\ ws' = [ws EXCEPT ![c] = NoSocket]
    /\ UNCHANGED <<users, req, ticketState, offWs, active_connections, admin_connections,
                   user_connections, wsOut>>

\* ------------------------------------------------------------------ /ws/problems/{id}/chat
\* get_current_user_ws, as above
ChatConnect(c, u, id) ==
    /\ ws[c].pc = "none"
    /\ ws' = [ws EXCEPT ![c] =
                 IF users[u].exists
                 THEN [NoSocket EXCEPT !.pc = "accept", !.kind = "chat", !.uid = u, !.id = id,
                                       !.adm = users[u].is_admin]
                 ELSE [NoSocket EXCEPT !.pc = "closed", !.kind = "chat", !.uid = u, !.id = id,
                                       !.code = 1008]]
    /\ UNCHANGED <<users, req, ticketState, offWs, active_connections, admin_connections,
                   user_connections, wsOut>>

\* await websocket.accept(), the first statement of problem_chat
ChatAccept(c) ==
    /\ ws[c].kind = "chat" /\ ws[c].pc = "accept"
    /\ ws' = [ws EXCEPT ![c].pc = "get_problem", ![c].accepted = TRUE]
    /\ UNCHANGED <<users, req, ticketState, offWs, active_connections, admin_connections,
                   user_connections, wsOut>>

\* is_creator or is_assigned_admin, main.py:434-437
ChatAllowed(u, adm, p) == p.user_id = u \/ (adm /\ p.admin_id = u)

\* problem = await crud.get_problem(db, id); close(1008) without ticket and
\* for a stranger, otherwise manager.chat_connect(websocket, id)
ChatGetProblem(c) ==
    /\ ws[c].kind = "chat" /\ ws[c].pc = "get_problem"
    /\ LET p == problems[ws[c].id]
       IN
       IF p.exists /\ ChatAllowed(ws[c].uid, ws[c].adm, p)
       THEN /\ ws' = [ws EXCEPT ![c].pc = "open"]
            /\ active_connections' = [active_connections EXCEPT ![ws[c].id] = Append(@, c)]
       ELSE /\ ws' = [ws EXCEPT ![c].pc = "closed", ![c].code = 1008]
            /\ UNCHANGED active_connections
    /\ UNCHANGED <<users, req, ticketState, offWs, admin_connections, user_connections, wsOut>>

\* WebSocketDisconnect in the receive loop: manager.chat_disconnect
ChatDisconnect(c) ==
    /\ ws[c].kind = "chat" /\ ws[c].pc = "open"
    /\ ws' = [ws EXCEPT ![c].pc = "closed", ![c].code = 1000]
    /\ active_connections' = [active_connections EXCEPT ![ws[c].id] = Remove(@, c)]
    /\ UNCHANGED <<users, req, ticketState, offWs, admin_connections, user_connections, wsOut>>

ProblemChat(c) ==
    \/ \E u \in UserIds, id \in ProblemIds : ChatConnect(c, u, id)
    \/ ChatAccept(c)
    \/ ChatGetProblem(c)
    \/ ChatDisconnect(c)

\* the text frames a client can send: not JSON; JSON that is no object
\* (5, [], "x", null); an object without "message"; "message" empty; blank;
\* "message" a number other than 0; "message" a text
Frames == {"garbage", "scalar", "absent", "empty", "blank", "number", "text"}

\* json.loads(data) raises JSONDecodeError
InvalidJson(frame) == frame = "garbage"

\* message_data.get("message") is there to call
HasGet(frame) == frame \notin {"garbage", "scalar"}

\* not text or not str(text).strip()
Ignored(frame) == frame \in {"absent", "empty", "blank"}

\* text.strip() is there to call
HasStrip(frame) == frame = "text"

\* data = await websocket.receive_text() up to crud.create_message; what a
\* socket got is the id of a message, or 0 for {"error": "Invalid JSON format"}.  An
\* exception other than WebSocketDisconnect ends the handler with the socket
\* closed (1011) and chat_disconnect not called
ChatReceive(c, frame) ==
    /\ ws[c].kind = "chat" /\ ws[c].pc = "open"
    /\ ws[c].seen < MaxFrames
    /\ HasStrip(frame) =>
          Len(messages) + Cardinality({d \in WsSlots : ws[d].pc = "create_message"}) < MaxMessages
    /\ LET r == [ws[c] EXCEPT !.frame = frame, !.seen = @ + 1] IN
       ws' = [ws EXCEPT ![c] =
                 IF InvalidJson(frame) THEN [r EXCEPT !.got = Append(@, 0)]
                 ELSE IF ~HasGet(frame) THEN [r EXCEPT !.pc = "closed", !.code = 1011]
                 ELSE IF Ignored(frame) THEN r
                 ELSE IF ~HasStrip(frame) THEN [r EXCEPT !.pc = "closed", !.code = 1011]
                 ELSE [r EXCEPT !.pc = "create_message"]]
    /\ UNCHANGED <<users, req, ticketState, offWs, active_connections, admin_connections,
                   user_connections, wsOut>>

\* crud.create_message: None without ticket or without sender; is_admin is
\* the sender's flag as read now
ChatCreateMessage(c) ==
    /\ ws[c].kind = "chat" /\ ws[c].pc = "create_message"
    /\ IF problems[ws[c].id].exists /\ users[ws[c].uid].exists
       THEN /\ messages' = Append(messages, [user_id |-> ws[c].uid, problem_id |-> ws[c].id,
                                             is_admin |-> users[ws[c].uid].is_admin])
            /\ ws' = [ws EXCEPT ![c].pc = "del_detail", ![c].msg = Len(messages) + 1]
       ELSE /\ ws' = [ws EXCEPT ![c].pc = "open"]
            /\ UNCHANGED messages
    /\ UNCHANGED <<users, req, ticketState, offChat, active_connections, admin_connections,
                   user_connections, wsOut>>

\* await redis.delete(f"problem:{id}"); broadcast_to_problem starts on a
\* copy of the ticket's list
ChatDelDetail(c) ==
    /\ ws[c].kind = "chat" /\ ws[c].pc = "del_detail"
    /\ detailCache' = [detailCache EXCEPT ![ws[c].id] = None]
    /\ ws' = [ws EXCEPT ![c].pc = IF active_connections[ws[c].id] = <<>> THEN "open" ELSE "broadcast",
                        ![c].targets = active_connections[ws[c].id]]
    /\ UNCHANGED <<users, req, problems, nextProblemId, listCache, listRacy, deleted,
                   serviceRecords, offWs, active_connections, admin_connections,
                   user_connections, wsOut>>

\* except Exception: self.chat_connect(connection, problem_id)
KeepFailed(list, c) == Append(list, c)

\* await connection.send_text(message) to the next socket of the copy; the
\* send to a closed socket fails, any send can fail
ChatSend(c, ok) ==
    /\ ws[c].kind = "chat" /\ ws[c].pc = "broadcast"
    /\ LET t == Head(ws[c].targets)
           pc == IF Len(ws[c].targets) = 1 THEN "open" ELSE "broadcast"
       IN
       /\ ok => ws[t].pc \notin {"none", "closed"}
       /\ IF ok
          THEN /\ ws' = [ws EXCEPT ![t].got = Append(@, ws[c].msg),
                                   ![c].targets = Tail(@), ![c].pc = pc]
               /\ UNCHANGED active_connections
          ELSE /\ ws' = [ws EXCEPT ![c].targets = Tail(@), ![c].pc = pc]
               /\ active_connections' =
                      [active_connections EXCEPT ![ws[c].id] = KeepFailed(@, t)]
    /\ UNCHANGED <<users, req, ticketState, offWs, admin_connections, user_connections, wsOut>>

ChatLoop(c) ==
    \/ \E frame \in Frames : ChatReceive(c, frame)
    \/ ChatCreateMessage(c)
    \/ ChatDelDetail(c)
    \/ \E ok \in BOOLEAN : ChatSend(c, ok)

\* ------------------------------------------------------------------ POST /register
\* the passwords a client can type
Passwords == 1..MaxPasswords

\* security.hash_pass: the argon2 hash of the password
HashPass(password) == [argon2 |-> password]

\* security.verify_password: ph.verify(hashed_pass, plain_pass), False on mismatch
VerifyPassword(plain_pass, hashed_pass) == hashed_pass = HashPass(plain_pass)

\* str.lower()
Lower(email) == [email EXCEPT !.cased = FALSE]

\* crud.get_user_by_email: WHERE email == email.lower()
GetUserByEmail(email) ==
    {u \in UserIds : users[u].exists /\ identity[u].email = Lower(email)}

\* crud.get_user_by_username
GetUserByUsername(username) ==
    {u \in UserIds : users[u].exists /\ identity[u].username = username}

\* models.User: username and email are unique=True; the commit of a row
\* that repeats one of them for another id raises IntegrityError
UniqueViolation(id, username, email) ==
    \E u \in UserIds \ {id} :
        /\ users[u].exists
        /\ identity[u].username = username \/ identity[u].email = email

\* if await crud.get_user_by_email(db, user.email): 400
RegisterCheckEmail(s, username, email, password) ==
    /\ req[s].pc = "idle"
    /\ nextUserId <= NUsers
    /\ LET r == [Idle EXCEPT !.op = "register", !.username = username, !.email = email,
                             !.password = password,
                             !.reuse = \E u \in UserIds :
                                          users[u].exists /\ identity[u].email = email]
       IN
       req' = [req EXCEPT ![s] =
                  IF GetUserByEmail(email) # {} THEN [r EXCEPT !.pc = "done", !.code = 400]
                  ELSE [r EXCEPT !.pc = "check_username"]]
    /\ UNCHANGED <<users, regVars, offReg>>

\* if await crud.get_user_by_username(db, user.username): 400
RegisterCheckUsername(s) ==
    /\ req[s].op = "register" /\ req[s].pc = "check_username"
    /\ req' = [req EXCEPT ![s] =
                  IF GetUserByUsername(req[s].username) # {}
                  THEN [@ EXCEPT !.pc = "done", !.code = 400, !.reuse = TRUE]
                  ELSE [@ EXCEPT !.pc = "create"]]
    /\ UNCHANGED <<users, regVars, offReg>>

\* crud.create_user: User(username, email=user.email.lower(), password=hash);
\* is_admin and is_verified take their defaults; response_model=UserRead
RegisterCreate(s) ==
    /\ req[s].op = "register" /\ req[s].pc = "create"
    /\ IF nextUserId > NUsers
          \/ UniqueViolation(nextUserId, req[s].username, Lower(req[s].email))
       THEN /\ req' = [req EXCEPT ![s].pc = "done", ![s].code = 500]
            /\ UNCHANGED <<users, regVars>>
       ELSE /\ users' = [users EXCEPT ![nextUserId] = NewUser(FALSE, FALSE)]
            /\ identity' = [identity EXCEPT ![nextUserId] =
                               [username |-> req[s].username, email |-> Lower(req[s].email),
                                password |-> HashPass(req[s].password)]]
            /\ nextUserId' = nextUserId + 1
            /\ req' = [req EXCEPT ![s].pc = "done", ![s].code = 200, ![s].uid = nextUserId,
                                  ![s].fields = ResponseModel(UserRead, JsonableEncoder(LoadedUser))]
    /\ UNCHANGED offReg

Register(s, passwords) ==
    \/ \E username \in Usernames, email \in Emails, password \in passwords :
          RegisterCheckEmail(s, username, email, password)
    \/ RegisterCheckUsername(s)
    \/ RegisterCreate(s)

\* ------------------------------------------------------------------ PATCH /users/me
\* schemas.UserUpdate: every field is optional, 0 / NoEmail stand for unset
UserUpdates ==
    [username : {0} \cup Usernames, email : {NoEmail} \cup Emails, password : {0} \cup Passwords]

\* the updates of the address alone
EmailUpdates == {change \in UserUpdates :
                    change.username = 0 /\ change.password = 0 /\ change.email # NoEmail}

\* the updates that leave the password alone
NameUpdates == {change \in UserUpdates : change.password = 0}

\* current_user = Depends(get_current_user); crud.update_user begins:
\* user = await get_user_by_id; 404 without it
UpdateProfileGet(s, u, change) ==
    /\ req[s].pc = "idle"
    /\ users[u].exists
    /\ req' = [req EXCEPT ![s] =
                  [Enter(s, "update_profile", u, 0) EXCEPT
                      !.pc = "commit", !.username = change.username, !.email = change.email,
                      !.password = change.password]]
    /\ UNCHANGED <<users, regVars, offReg>>

\* update_data["password"] = hash_pass(...); for field, value in
\* update_data.items(): setattr(user, field, value); commit: the other
\* supplied values are stored as they are
UpdateProfileCommit(s) ==
    /\ req[s].op = "update_profile" /\ req[s].pc = "commit"
    /\ LET u == req[s].uid
           row == [username |-> IF req[s].username = 0 THEN identity[u].username
                                ELSE req[s].username,
                   email |-> IF req[s].email = NoEmail THEN identity[u].email
                             ELSE req[s].email,
                   password |-> IF req[s].password = 0 THEN identity[u].password
                                ELSE HashPass(req[s].password)]
       IN
       IF ~users[u].exists \/ UniqueViolation(u, row.username, row.email)
       THEN /\ req' = [req EXCEPT ![s].pc = "done", ![s].code = 500]
            /\ UNCHANGED identity
       ELSE /\ identity' = [identity EXCEPT ![u] = row]
            /\ RespondWith(s, 200, ResponseModel(UserRead, JsonableEncoder(LoadedUser)))
    /\ UNCHANGED <<users, nextUserId, offReg>>

UpdateProfile(s, changes) ==
    \/ \E u \in UserIds, change \in changes : UpdateProfileGet(s, u, change)
    \/ UpdateProfileCommit(s)

\* ------------------------------------------------------------------ POST /login
\* crud.authenticate_user: get_user_by_email, then verify_password against
\* the row's hash
AuthenticateUser(email, password) ==
    {u \in GetUserByEmail(email) : VerifyPassword(password, identity[u].password)}

\* 401 "Invalid credentials" without such a user; otherwise the access
\* token with sub = str(db_user.id) beside the refresh token
LoginResponse(email, password) ==
    LET r == [Idle EXCEPT !.op = "login", !.email = email, !.password = password,
                          !.pc = "done"]
        found == AuthenticateUser(email, password)
    IN
    IF found = {}
    THEN [r EXCEPT !.code = 401, !.why = "Invalid credentials"]
    ELSE [r EXCEPT !.code = 200, !.uid = CHOOSE u \in found : TRUE,
                   !.tok = CreateAccessToken(CHOOSE u \in found : TRUE),
                   !.fields = {"access_token", "refresh_token", "token_type"}]

\* the handler of a call the limiter admits
LoginRequest(s, email, password) ==
    /\ req[s].pc = "idle"
    /\ req' = [req EXCEPT ![s] = LoginResponse(email, password)]
    /\ UNCHANGED <<users, regVars, offReg>>

\* the calls admitted within the window that ends now
Recent(stamps) == SelectSeq(stamps, LAMBDA t : t > now - RateWindow)

\* a bug: the window is never full
AdmitsAll(stamps) == TRUE

\* Limiter(Rate(3, Duration.MINUTE)): a call is admitted while fewer than
\* the rate's calls were admitted within the window
Admits(stamps) == Len(Recent(stamps)) < LoginRate

\* dependencies=[Depends(RateLimiter(...))] runs before the handler: 429
\* without the handler when the limiter refuses the call
RateLimitedLogin(s, email, password) ==
    /\ req[s].pc = "idle"
    /\ IF Admits(bucket)
       THEN /\ bucket' = Append(bucket, now)
            /\ req' = [req EXCEPT ![s] = LoginResponse(email, password)]
       ELSE /\ req' = [req EXCEPT ![s] =
                          [Idle EXCEPT !.op = "login", !.email = email, !.password = password,
                                       !.pc = "done", !.code = 429]]
            /\ UNCHANGED bucket
    /\ UNCHANGED <<users, offBucket>>

\* ------------------------------------------------------------------ POST /users/me/snake
Points == 1..MaxPoints

\* the accounts beyond NUsers send no request here; they are rows of the
\* table users with their id as username, and hold the scores 2, 4, ...
Players == [k \in 1..OtherPlayers |-> [user_id |-> NUsers + k, points |-> 2 * k]]

PlayerExists(id) == id \notin UserIds \/ users[id].exists
PlayerName(id) == IF id \in UserIds THEN identity[id].username ELSE id

\* select(SnakeStats).where(SnakeStats.user_id == user_id): the row's
\* position in the table, 0 when there is none
SnakeRow(user_id) ==
    IF \E k \in DOMAIN snakeStats : snakeStats[k].user_id = user_id
    THEN CHOOSE k \in DOMAIN snakeStats : snakeStats[k].user_id = user_id
    ELSE 0

\* SnakeStats.user_id is unique: a second row of the same user is refused
SnakeUnique(user_id) == SnakeRow(user_id) = 0

\* if stats.points > snake.points
SnakeImproves(points, stored) == points > stored

\* current_user = Depends(get_verified_user); stats.user_id = current_user.id;
\* crud.create_snake begins: snake = the row of the user, or None
SnakeGameSelect(s, u, points) ==
    /\ req[s].pc = "idle"
    /\ Verified(u)
    /\ LET k == SnakeRow(u) IN
       req' = [req EXCEPT ![s] =
                  [Enter(s, "snake_game", u, 0) EXCEPT
                      !.pc = "commit", !.points = points, !.rec = k,
                      !.seen = IF k = 0 THEN 0 ELSE snakeStats[k].points]]
    /\ UNCHANGED <<users, snakeVars, offSnake>>

\* snake.points = stats.points on the object as it was loaded, or
\* db.add(SnakeStats(...)); commit: UPDATE ... SET points WHERE id, or INSERT
SnakeGameCommit(s) ==
    /\ req[s].op = "snake_game" /\ req[s].pc = "commit"
    /\ LET u == req[s].uid
           k == req[s].rec
       IN
       IF k = 0 /\ ~SnakeUnique(u)
       THEN /\ req' = [req EXCEPT ![s].pc = "done", ![s].code = 500]
            /\ UNCHANGED <<snakeStats, snakeBest>>
       ELSE /\ snakeStats' =
                  IF k = 0 THEN Append(snakeStats, [user_id |-> u, points |-> req[s].points])
                  ELSE IF SnakeImproves(req[s].points, req[s].seen)
                  THEN [snakeStats EXCEPT ![k].points = req[s].points]
                  ELSE snakeStats
            /\ snakeBest' = [snakeBest EXCEPT ![u] = IF req[s].points > @ THEN req[s].points ELSE @]
            /\ req' = [req EXCEPT ![s].pc = "cache_del", ![s].committed = TRUE]
    /\ UNCHANGED <<users, snakeCache, offSnake>>

\* await redis.delete("snake_top_10"); return await get_snake_game(...)
SnakeGameCacheDel(s) ==
    /\ req[s].op = "snake_game" /\ req[s].pc = "cache_del"
    /\ snakeCache' = None
    /\ req' = [req EXCEPT ![s].pc = "cache_get"]
    /\ UNCHANGED <<users, snakeStats, snakeBest, offSnake>>

\* ------------------------------------------------------------------ GET /users/me/snake
RECURSIVE Sorts(_)
\* ORDER BY points DESC: every order of the rows that descends in points
Sorts(S) ==
    IF S = {} THEN {<<>>}
    ELSE UNION {{<<r>> \o t : t \in Sorts(S \ {r})} :
                   r \in {x \in S : \A y \in S : x.points >= y.points}}

\* .limit(10)
Limit(t) == SubSeq(t, 1, IF Len(t) < TopLimit THEN Len(t) ELSE TopLimit)

AllStats == {snakeStats[k] : k \in DOMAIN snakeStats} \cup {Players[k] : k \in DOMAIN Players}

\* crud.get_top_10: SnakeStats joined with User, each row as
\* {"user_id", "points", "username"}
GetTop10 ==
    {Limit(t) :
        t \in Sorts({[user_id |-> r.user_id, points |-> r.points,
                      username |-> PlayerName(r.user_id)] :
                        r \in {x \in AllStats : PlayerExists(x.user_id)}})}

\* for entry in top_10: entry["is_current_user"] = (entry["user_id"] == current_user.id)
Annotate(top, uid) ==
    [k \in DOMAIN top |->
        [user_id |-> top[k].user_id, points |-> top[k].points, username |-> top[k].username,
         is_current_user |-> top[k].user_id = uid]]

\* cached_top = await redis.get("snake_top_10"); json.loads on a hit
SnakeCacheGetStep(s, r) ==
    req' = [req EXCEPT ![s] =
               IF snakeCache # None THEN [r EXCEPT !.pc = "stats", !.top = snakeCache[1], !.hit = TRUE]
               ELSE [r EXCEPT !.pc = "top10"]]

\* current_user = Depends(get_verified_user), then the cache lookup
SnakeCacheGet(s, u) ==
    /\ req[s].pc = "idle"
    /\ Verified(u)
    /\ SnakeCacheGetStep(s, Enter(s, "get_snake_game", u, 0))
    /\ UNCHANGED <<users, snakeVars, offSnake>>

\* the same lookup as the last part of a submission
SnakeGameCacheGet(s) ==
    /\ req[s].op = "snake_game" /\ req[s].pc = "cache_get"
    /\ SnakeCacheGetStep(s, req[s])
    /\ UNCHANGED <<users, snakeVars, offSnake>>

\* top_10_raw = await crud.get_top_10(db); top_10 = jsonable_encoder(top_10_raw)
SnakeTop10(s) ==
    /\ req[s].op \in {"snake_game", "get_snake_game"} /\ req[s].pc = "top10"
    /\ \E t \in GetTop10 : req' = [req EXCEPT ![s].pc = "cache_set", ![s].top = t]
    /\ UNCHANGED <<users, snakeVars, offSnake>>

\* await redis.set(cache_key, json.dumps(top_10), ex=60)
SnakeCacheSet(s) ==
    /\ req[s].op \in {"snake_game", "get_snake_game"} /\ req[s].pc = "cache_set"
    /\ snakeCache' = Some(req[s].top)
    /\ req' = [req EXCEPT ![s].pc = "stats"]
    /\ UNCHANGED <<users, snakeStats, snakeBest, offSnake>>

\* schemas.SnakeRead: the list with its flags and the caller's own row
SnakeRead(top, user_points) == [top_points |-> top, user_points |-> user_points]

\* the annotation, user_stats = await crud.get_user_stats(db, current_user.id)
\* and the response
SnakeUserStats(s) ==
    /\ req[s].op \in {"snake_game", "get_snake_game"} /\ req[s].pc = "stats"
    /\ LET k == SnakeRow(req[s].uid) IN
       Respond(s, 200, SnakeRead(Annotate(req[s].top, req[s].uid),
                                 IF k = 0 THEN 0 ELSE snakeStats[k].points))
    /\ UNCHANGED <<users, snakeVars, offSnake>>

\* the 60 s of the cache entry are over
SnakeCacheExpire ==
    /\ snakeCache # None
    /\ snakeCache' = None
    /\ UNCHANGED <<users, req, snakeStats, snakeBest, offSnake>>

GetSnakeGame(s) ==
    \/ \E u \in UserIds : SnakeCacheGet(s, u)
    \/ SnakeTop10(s)
    \/ SnakeCacheSet(s)
    \/ SnakeUserStats(s)

SnakeGame(s, submitted) ==
    \/ \E u \in UserIds, points \in submitted : SnakeGameSelect(s, u, points)
    \/ SnakeGameCommit(s)
    \/ SnakeGameCacheDel(s)
    \/ SnakeGameCacheGet(s)

\* ------------------------------------------------------------------ the dependency chain
AdminRoutes == {"change_problem_status", "assign_admin", "create_service_record"}
VerifiedRoutes == {"create_problem", "make_admin", "generate_tg_link"}

\* utils.get_current_user: 401 without a token that decodes, with a
\* blacklisted or expired one, or without the user; 0 when it returns the user
GetCurrentUser(cred) ==
    IF cred = NoToken \/ IsBlacklisted(cred) \/ Expired(cred) \/ NoSuchUser(cred) THEN 401
    ELSE 0

\* utils.get_verified_user
GetVerifiedUser(cred) ==
    IF GetCurrentUser(cred) # 0 THEN GetCurrentUser(cred)
    ELSE IF ~Verified(cred.sub) THEN 403
    ELSE 0

\* utils.get_current_admin
GetCurrentAdmin(cred) ==
    IF GetVerifiedUser(cred) # 0 THEN GetVerifiedUser(cred)
    ELSE IF ~IsAdmin(cred.sub) THEN 403
    ELSE 0

\* the dependency of the route
Dependency(op, cred) ==
    IF op \in AdminRoutes THEN GetCurrentAdmin(cred) ELSE GetVerifiedUser(cred)

\* a request whose dependency raises: the HTTPException is the response and
\* the handler body does not run
Denied(s, op, cred) ==
    /\ req[s].pc = "idle"
    /\ cred \in tokens \cup {NoToken}
    /\ Dependency(op, cred) # 0
    /\ req' = [req EXCEPT ![s] =
                  [Idle EXCEPT !.op = op, !.pc = "done", !.code = Dependency(op, cred),
                               !.tok = cred, !.why = "denied",
                               !.afterRev = cred \in revoked]]
    /\ UNCHANGED <<users, ticketState, offTicket>>

\* ------------------------------------------------------------------ specifications
InitCore(present, admins, verified, rows, firstId) ==
    /\ users = [u \in UserIds |->
                  IF u \in present THEN NewUser(u \in admins, u \in verified) ELSE NoUser]
    /\ problems = rows
    /\ nextProblemId = firstId
    /\ listCache = [k \in ListKeys |-> None]
    /\ detailCache = [i \in ProblemIds |-> None]
    /\ req = [s \in Slots |-> Idle]
    /\ listRacy = [k \in ListKeys |-> FALSE]
    /\ deleted = [i \in ProblemIds |-> "no"]
    /\ serviceRecords = <<>>
    /\ now = 0
    /\ tokens = {}
    /\ blacklist = {}
    /\ revoked = {}
    /\ tgLinks = [t \in LinkIds |-> 0]
    /\ nextLink = 1
    /\ confirms = [t \in LinkIds |-> 0]
    /\ verification = [u \in UserIds |-> 0]
    /\ ws = [c \in WsSlots |-> NoSocket]
    /\ active_connections = [i \in ProblemIds |-> <<>>]
    /\ admin_connections = <<>>
    /\ user_connections = [u \in UserIds |-> <<>>]
    /\ wsOut = {}
    /\ identity = [u \in UserIds |->
                     IF u \in present
                     THEN [username |-> u, email |-> [name |-> u, cased |-> FALSE],
                           password |-> HashPass(1)]
                     ELSE NoIdentity]
    /\ nextUserId = Cardinality(present) + 1
    /\ snakeCache = None
    /\ snakeBest = [u \in UserIds |-> 0]
    /\ outbox = {}
    /\ messages = <<>>
    /\ bucket = <<>>
    /\ bot = [b \in 1..MaxUpdates |-> [pc |-> "idle"]]

InitState(present, admins, verified, rows, firstId) ==
    /\ InitCore(present, admins, verified, rows, firstId)
    /\ snakeStats = <<>>

\* no ticket yet
InitTickets(present, admins, firstId) ==
    InitState(present, admins, present, [i \in ProblemIds |-> NoProblem], firstId)

\* ticket 1 reported by user 1 and taken by the admin
OneTicket ==
    [i \in ProblemIds |->
        IF i = 1 THEN [NewProblem(1) EXCEPT !.admin_id = ListUsers, !.status = StatusInWork]
        ELSE NoProblem]

\* GET /problems against the ticket writes that change which tickets exist:
\* two users, the last one an admin
InitList == InitTickets(1..ListUsers, {ListUsers}, 1)

NextList ==
    \/ \E s \in Slots : CreateProblem(s)
    \/ \E s \in Slots : DeleteProblem(s)
    \/ \E s \in Slots : GetProblemsList(s)
    \/ \E s \in Slots : Retire(s)
    \/ \E k \in ListKeys : ListCacheExpire(k)

SpecList == InitList /\ [][NextList]_vars

\* GET /problems/{id} against create, assign and delete: user 1 is a plain
\* user, every other user an admin; the ids below MaxProblems belonged to
\* tickets that are gone, so one more ticket can be created
InitDetail == InitTickets(UserIds, UserIds \ {1}, MaxProblems)

NextDetail ==
    \/ \E s \in Slots : CreateProblem(s)
    \/ \E s \in Slots : AssignAdmin(s)
    \/ \E s \in Slots : DeleteProblem(s)
    \/ \E s \in Slots : GetProblem(s)
    \/ \E s \in Slots : Retire(s)
    \/ \E id \in ProblemIds : DetailCacheExpire(id)

SpecDetail == InitDetail /\ [][NextDetail]_vars

\* POST /service-record against the other writes of a ticket: user 1 is a
\* plain user, user 2 an admin, one ticket can be created
InitRecord == InitTickets(1..ListUsers, {ListUsers}, MaxProblems)

NextRecord ==
    \/ \E s \in Slots : CreateProblem(s)
    \/ \E s \in Slots : AssignAdmin(s)
    \/ \E s \in Slots : ChangeProblemStatus(s)
    \/ \E s \in Slots : CreateServiceRecord(s)
    \/ \E s \in Slots : DeleteProblem(s)
    \/ \E s \in Slots : Retire(s)

SpecRecord == InitRecord /\ [][NextRecord]_vars

\* the bearer token through its lifetime against DELETE /users/me: two
\* accounts, a clock, and the ticket both accounts are tied to
InitAuth == InitState(1..ListUsers, {ListUsers}, 1..ListUsers, OneTicket, 2)

NextAuth ==
    \/ \E u \in UserIds : Login(u)
    \/ Tick
    \/ \E e \in blacklist : BlacklistExpire(e)
    \/ \E s \in Slots : Profile(s)
    \/ \E s \in Slots : DeleteUser(s)
    \/ \E s \in Slots : Retire(s)

SpecAuth == InitAuth /\ [][NextAuth]_vars

\* linking chat identities: two verified accounts, two link tokens, two chats
InitTg == InitTickets(1..ListUsers, {ListUsers}, 1)

NextTg ==
    \/ \E u \in UserIds : GenerateTgLink(u)
    \/ \E t \in LinkIds : TgLinkExpire(t)
    \/ \E s \in Slots : ConfirmTgLink(s)
    \/ \E s \in Slots, tg \in ChatIds : CheckTgLink(s, tg)
    \/ \E s \in Slots : UnlinkTg(s)
    \/ \E s \in Slots : Retire(s)

SpecTg == InitTg /\ [][NextTg]_vars

\* verification codes: two accounts that registered and are not verified yet
InitVerify == InitState(1..ListUsers, {}, {}, [i \in ProblemIds |-> NoProblem], 1)

NextVerify ==
    \/ \E s \in Slots : ResendCode(s)
    \/ \E s \in Slots : VerifyEmail(s)
    \/ \E u \in UserIds : CodeExpire(u)
    \/ \E s \in Slots : Retire(s)

SpecVerify == InitVerify /\ [][NextVerify]_vars

\* the ticket chat handshake against assignment: the ticket of user 1 is
\* taken by admin 2, admin 3 is a stranger to it, ticket 2 does not exist
InitWs == InitState(UserIds, UserIds \ {1}, UserIds, OneTicket, 2)

NextWs ==
    \/ \E c \in WsSlots : ProblemChat(c)
    \/ \E c \in WsSlots : WsRetire(c)
    \/ \E s \in Slots : AssignAdmin(s)
    \/ \E s \in Slots : Retire(s)

SpecWs == InitWs /\ [][NextWs]_vars

\* what leaves the server: responses of routes with and without
\* response_model and the ticket broadcasts to notification sockets.  What a
\* payload contains does not depend on interleaving, so the requests are
\* taken one at a time
Serial == {1}

InitPayload == InitTickets(1..ListUsers, {ListUsers}, MaxProblems)

NextPayload ==
    \/ \E s \in Serial : CreateProblem(s)
    \/ \E s \in Serial : AssignAdmin(s)
    \/ \E s \in Serial : MakeAdmin(s)
    \/ \E s \in Serial : UnlinkTg(s)
    \/ \E c \in WsSlots : Notifications(c)
    \/ \E c \in WsSlots : WsRetire(c)
    \/ \E s \in Serial : Retire(s)

SpecPayload == InitPayload /\ [][NextPayload]_vars

\* registration and profile updates: no account at first, two usernames,
\* two addresses each in a lower-case and a mixed-case spelling
InitReg == InitTickets({}, {}, 1)

NextReg ==
    \/ \E s \in Slots : Register(s, {1})
    \/ \E s \in Slots : UpdateProfile(s, NameUpdates)
    \/ \E s \in Slots : Retire(s)

SpecReg == InitReg /\ [][NextReg]_vars

\* the refresh exchange: two accounts log in, the clock runs past the
\* lifetime of a refresh token, accounts are deleted
InitRefresh == InitTickets(1..ListUsers, {}, 1)

NextRefresh ==
    \/ \E u \in UserIds : Login(u)
    \/ LateTick
    \/ \E e \in blacklist : BlacklistExpire(e)
    \/ \E s \in Serial : DeleteUser(s)
    \/ \E s \in Slots : Refresh(s)
    \/ \E s \in Slots : Retire(s)

SpecRefresh == InitRefresh /\ [][NextRefresh]_vars

\* the verification code from registration on: accounts register and ask
\* for their code, codes run out
InitIssue == InitTickets({}, {}, 1)

NextIssue ==
    \/ \E s \in Serial : Register(s, {1})
    \/ \E s \in Slots : ResendCode(s)
    \/ \E u \in UserIds : CodeExpire(u)
    \/ \E s \in Slots : Retire(s)

SpecIssue == InitIssue /\ [][NextIssue]_vars

\* ------------------------------------------------------------------ bot.py
BotSlots == 1..MaxUpdates

\* an incoming message: its command, whether the command carries arguments
\* and whether its lower-cased text contains the ticket-list button's word
Updates == {m \in [command : {"start", "problems", "none"}, args : BOOLEAN, button : BOOLEAN] :
               m.command = "none" => ~m.args}

\* what an API call can end in: no response at all, or a status and a body;
\* a body is a JSON object, a JSON list or no JSON
NetworkFailure == [status |-> 0, body |-> "none"]
Bodies == {"account", "unlinked", "detail", "object", "empty_list", "tickets", "garbage"}
Outcomes == {NetworkFailure} \cup [status : {200, 400, 404, 500}, body : Bodies]
IsObject(body) == body \in {"account", "unlinked", "detail", "object"}

\* @dp.message(CommandStart(deep_link=True)): /start with a payload
StartFilter(m) == m.command = "start" /\ m.args
\* @dp.message(Command("problems")), @dp.message(F.text.lower().contains(..))
ProblemsFilter(m) == m.command = "problems" \/ m.button

\* the first registered handler whose filter passes
Handler(m) ==
    IF StartFilter(m) THEN "handle_start"
    ELSE IF ProblemsFilter(m) THEN "handle_problems"
    ELSE "none"

\* handle_start: the messages it answers with, given command.args and the
\* outcome of its API call
HandleStart(token, res) ==
    IF token
    THEN IF res = NetworkFailure \/ ~IsObject(res.body) THEN <<"desk_unavailable">>
         ELSE IF res.status = 200 THEN <<"linked_ok">>
         ELSE IF res.body = "detail" THEN <<"detail">>
         ELSE <<"unknown_link_error">>
    ELSE IF res = NetworkFailure THEN <<"hello_no_connection">>
         ELSE IF res.status # 200 THEN <<"hello_unknown">>
         ELSE IF ~IsObject(res.body) THEN <<"hello_no_connection">>
         ELSE IF res.body = "account" THEN <<"hello_linked">>
         ELSE <<>>

\* handle_problems: the same
HandleProblems(res) ==
    IF res = NetworkFailure THEN <<"no_connection">>
    ELSE IF res.status = 200
         THEN IF res.body = "empty_list" THEN <<"no_tickets">>
              ELSE IF res.body = "tickets" THEN <<"ticket_list">>
              ELSE <<"no_connection">>
    ELSE IF res.status = 404 THEN <<"not_linked">>
    ELSE <<>>

\* the poller hands an update to the dispatcher
BotReceive(b, m) ==
    /\ bot[b].pc = "idle"
    /\ bot' = [bot EXCEPT ![b] = [pc |-> "received", message |-> m]]
    /\ UNCHANGED offBot

\* the dispatcher starts the handler, or drops the update no filter passes
BotDispatch(b) ==
    /\ bot[b].pc = "received"
    /\ bot' = [bot EXCEPT ![b] =
                  IF Handler(bot[b].message) = "none"
                  THEN [pc |-> "dropped", message |-> bot[b].message, answers |-> <<>>]
                  ELSE [pc |-> "request", message |-> bot[b].message,
                        handler |-> Handler(bot[b].message)]]
    /\ UNCHANGED offBot

\* await client.post(..) / await client.get(..)
BotRequest(b, res) ==
    /\ bot[b].pc = "request"
    /\ bot' = [bot EXCEPT ![b] = [pc |-> "response", message |-> bot[b].message,
                                  handler |-> bot[b].handler, res |-> res]]
    /\ UNCHANGED offBot

\* the rest of the handler: await message.answer(..), or nothing
BotAnswer(b) ==
    /\ bot[b].pc = "response"
    /\ bot' = [bot EXCEPT ![b] =
                  [pc |-> "handled", message |-> bot[b].message, handler |-> bot[b].handler,
                   res |-> bot[b].res,
                   answers |-> IF bot[b].handler = "handle_start"
                               THEN HandleStart(bot[b].message.args, bot[b].res)
                               ELSE HandleProblems(bot[b].res)]]
    /\ UNCHANGED offBot

BotStep(b) ==
    \/ BotDispatch(b)
    \/ \E res \in Outcomes : BotRequest(b, res)
    \/ BotAnswer(b)

\* the bot alone
InitBot == InitTickets({}, {}, 1)

NextBot ==
    \/ \E b \in BotSlots, m \in Updates : BotReceive(b, m)
    \/ \E b \in BotSlots : BotStep(b)

SpecBot == InitBot /\ [][NextBot]_vars

\* the event loop runs every started handler on, and an API call ends
SpecBotLive == SpecBot /\ \A b \in BotSlots : WF_vars(BotStep(b))

\* the broadcasts send by send against sockets that come and go: user 1
\* owns ticket 1, user 2 is the admin, user 3 a stranger; one request, and a
\* closed socket's slot is not taken again
InitFanout == InitState(UserIds, {ListUsers}, UserIds, OneTicket, 2)

NextFanout ==
    \/ \E u \in UserIds : CreateProblemCommit(1, u)
    \/ CreateProblemDelUser(1)
    \/ CreateProblemDelAdmin(1)
    \/ \E u \in UserIds, id \in ProblemIds, st \in StatusUpdates :
          ChangeProblemStatusCommit(1, u, id, st)
    \/ ChangeProblemStatusDelDetail(1)
    \/ ChangeProblemStatusDelUser(1)
    \/ ChangeProblemStatusDelAdmin(1)
    \/ \E u \in UserIds, id \in ProblemIds : CreateServiceRecordGet(1, u, id, u)
    \/ CreateServiceRecordCommit(1)
    \/ CreateServiceRecordReload(1)
    \/ CreateServiceRecordDelUser(1)
    \/ CreateServiceRecordDelAdmin(1)
    \/ CreateServiceRecordDelDetail(1)
    \/ \E ok \in BOOLEAN : BroadcastSend(1, ok)
    \/ BroadcastReturn(1)
    \/ \E c \in WsSlots : Notifications(c)

SpecFanout == InitFanout /\ [][NextFanout]_vars

\* the two caches against every write of the tickets table, one request at
\* a time: user 1 is a plain user, user 2 an admin, one ticket can be created
InitStale == InitTickets(1..ListUsers, {ListUsers}, MaxProblems)

NextStale ==
    \/ \E u \in UserIds : Login(u)
    \/ \E s \in Serial : CreateProblem(s)
    \/ \E s \in Serial : AssignAdmin(s)
    \/ \E s \in Serial : ChangeProblemStatus(s)
    \/ \E s \in Serial : CreateServiceRecord(s)
    \/ \E s \in Serial : DeleteProblem(s)
    \/ \E s \in Serial : DeleteUser(s)
    \/ \E s \in Serial : GetProblemsList(s)
    \/ \E s \in Serial : GetProblem(s)
    \/ \E s \in Serial : Retire(s)
    \/ \E k \in ListKeys : ListCacheExpire(k)
    \/ \E id \in ProblemIds : DetailCacheExpire(id)

SpecStale == InitStale /\ [][NextStale]_vars

Bearer(s) == \E jwt \in Presented : BearerRequest(s, jwt)

WsHandshake(c) == \E jwt \in Presented : GetCurrentUserWs(c, jwt)

\* the tokens of a login presented to both dependencies while the clock
\* runs and accounts are deleted; every socket slot serves one handshake
InitCreds == InitTickets(1..ListUsers, {}, 1)

NextCreds ==
    \/ \E u \in UserIds : Login(u)
    \/ Tick
    \/ \E e \in blacklist : BlacklistExpire(e)
    \/ \E s \in Serial : DeleteUser(s)
    \/ \E s \in Slots \ Serial : Bearer(s)
    \/ \E c \in Serial : WsHandshake(c)
    \/ \E s \in Slots : Retire(s)

SpecCreds == InitCreds /\ [][NextCreds]_vars

\* the two privilege flags from an empty users table: accounts register,
\* codes are issued and submitted, addresses changed, makeadmin called
InitPriv == InitTickets({}, {}, 1)

NextPriv ==
    \/ \E s \in Serial : Register(s, {1})
    \/ \E s \in Serial : ResendCode(s)
    \/ \E s \in Serial : VerifyEmail(s)
    \/ \E s \in Slots \ Serial : MakeAdmin(s)
    \/ \E s \in Serial : UpdateProfile(s, EmailUpdates)
    \/ \E s \in Slots : Retire(s)

SpecPriv == InitPriv /\ [][NextPriv]_vars

\* tickets created with and without an image, under every file name
InitUpload == InitTickets(1..ListUsers, {ListUsers}, 1)

NextUpload ==
    \/ \E s \in Slots : CreateProblemImage(s)
    \/ \E s \in Slots : Retire(s)

SpecUpload == InitUpload /\ [][NextUpload]_vars

\* the limiter of POST /login: one account, logins with right and wrong
\* passwords, and a clock that runs past the window
InitLimit == InitTickets({1}, {}, 1)

NextLimit ==
    \/ \E s \in Slots, email \in Emails, password \in Passwords :
          RateLimitedLogin(s, email, password)
    \/ LateTick
    \/ \E s \in Slots : Retire(s)

SpecLimit == InitLimit /\ [][NextLimit]_vars

\* one account that changes its name, address and password while logins
\* with every address and password arrive
InitLogin == InitTickets({1}, {}, 1)

NextLogin ==
    \/ \E s \in Slots : UpdateProfile(s, UserUpdates)
    \/ \E s \in Slots, email \in Emails, password \in Passwords : LoginRequest(s, email, password)
    \/ \E s \in Slots : Retire(s)

SpecLogin == InitLogin /\ [][NextLogin]_vars

\* the personal best: one verified account that plays, with every score,
\* next to the rows of the other players
InitSnake ==
    /\ InitCore({1}, {}, {1}, [i \in ProblemIds |-> NoProblem], 1)
    /\ snakeStats = <<>>

NextSnake ==
    \/ \E s \in Slots : SnakeGame(s, Points)
    \/ \E s \in Slots : GetSnakeGame(s)
    \/ SnakeCacheExpire
    \/ \E s \in Slots : Retire(s)

SpecSnake == InitSnake /\ [][NextSnake]_vars

\* the top list: two verified accounts that play and read, each submitting
\* the highest score
InitTop ==
    /\ InitCore(1..ListUsers, {}, 1..ListUsers, [i \in ProblemIds |-> NoProblem], 1)
    /\ snakeStats = <<>>

NextTop ==
    \/ \E s \in Slots : SnakeGame(s, {MaxPoints})
    \/ \E s \in Slots : GetSnakeGame(s)
    \/ SnakeCacheExpire
    \/ \E s \in Slots : Retire(s)

SpecTop == InitTop /\ [][NextTop]_vars

\* the dependency chain of the admin-only and verified-only routes: user 1
\* is verified, user 2 a verified admin, user 3 not verified; tokens are
\* issued, run out and are revoked.  A refused request touches nothing, so
\* one slot takes the refused requests and the other the requests that pass
InitGate == InitState(UserIds, {2}, {1, 2}, OneTicket, 2)

NextGate ==
    \/ \E u \in UserIds : Login(u)
    \/ Tick
    \/ \E e \in blacklist : BlacklistExpire(e)
    \/ \E s \in Serial : DeleteUser(s)
    \/ \E s \in Slots \ Serial, op \in AdminRoutes \cup VerifiedRoutes,
          cred \in tokens \cup {NoToken} : Denied(s, op, cred)
    \/ \E s \in Serial : AssignAdmin(s)
    \/ \E s \in Slots : Retire(s)

SpecGate == InitGate /\ [][NextGate]_vars

\* the chat of the one ticket, between its reporter and its admin, and the
\* notification sockets beside it
InitChat == InitState(1..ListUsers, {ListUsers}, 1..ListUsers, OneTicket, 2)

NextChat ==
    \/ \E c \in WsSlots : ProblemChat(c)
    \/ \E c \in WsSlots : ChatLoop(c)
    \/ \E c \in WsSlots : Notifications(c)

SpecChat == InitChat /\ [][NextChat]_vars

\* notifications: the ticket of user 1, whose Telegram link comes and goes,
\* is rejected or gets its service record, and the background tasks run
InitNotify == InitState(1..ListUsers, {ListUsers}, 1..ListUsers, OneTicket, 2)

NextNotify ==
    \/ GenerateTgLink(1)
    \/ \E s \in Serial : ConfirmTgLink(s)
    \/ \E s \in Serial : UnlinkTg(s)
    \/ \E s \in Slots : ChangeProblemStatus(s)
    \/ \E s \in Slots \ Serial : CreateServiceRecord(s)
    \/ \E s \in Slots, ok \in BOOLEAN : RunTask(s, ok)
    \/ \E s \in Slots : RetireNotified(s)

SpecNotify == InitNotify /\ [][NextNotify]_vars

\* ------------------------------------------------------------------ claims
\* a request of kind op answers in this step
Answers(s, op) == req'[s].op = op /\ req[s].pc # "done" /\ req'[s].pc = "done"

VisibleIds(u, adm) ==
    {i \in ProblemIds : problems[i].exists /\ (adm \/ problems[i].user_id = u)}

ListIsolated(r) == ~r.adm => \A t \in r.body : t.user_id = r.uid
ListExact(r) == {t.id : t \in r.body} = VisibleIds(r.uid, r.adm)

C2_Permitted(u, adm, p) == p.user_id = u \/ (adm /\ (p.admin_id = u \/ p.admin_id = 0))

\* the step in which GET /problems/{id} decides on access: the cache lookup
\* when it hits, the database read otherwise
C2_Decides(s) ==
    /\ req'[s].op = "get_problem"
    /\ \/ req[s].pc = "idle" /\ req'[s].pc = "done"
       \/ req[s].pc = "db_read" /\ req'[s].pc # "db_read"

\* C2 as claimed: for a verified caller and an existing ticket, GET
\* /problems/{id} is granted exactly to the reporter, to the assigned admin
\* and to any admin while no admin is assigned - also when problem:{id} is
\* cached (taken here with the cache entry, if any, equal to the row).
C2_AsClaimed ==
    [][\A s \in Slots :
          LET id == req'[s].id
              p == problems[id]
          IN
          (/\ C2_Decides(s)
           /\ p.exists
           /\ detailCache[id] # None => detailCache[id][1] = Encode(id, p))
          => ((req'[s].code \notin {403, 404})
                <=> C2_Permitted(req'[s].uid, req'[s].adm, p))]_vars

\* DELETE /problems/{id} on an existing ticket: 403 with the ticket left in
\* place for a caller who is neither owner nor admin, otherwise the handler
\* goes on to delete, and its 200 leaves no ticket of that id
C7_DeleteGated(s) ==
    LET id == req'[s].id
        p == problems[id]
        may == req'[s].adm \/ p.user_id = req'[s].uid
    IN
    /\ (req[s].pc = "idle" /\ req'[s].op = "delete_problem" /\ p.exists) =>
          IF may THEN req'[s].pc # "done"
          ELSE req'[s].pc = "done" /\ req'[s].code = 403 /\ problems' = problems
    /\ (Answers(s, "delete_problem") /\ req'[s].code = 200) => ~problems'[id].exists

C6_RecordCreation ==
    [][\A s \in Slots :
          LET id == req'[s].id
              k == Len(serviceRecords')
          IN
          /\ (req[s].pc = "commit" /\ req'[s].pc = "reload" /\ problems[id].exists) =>
                /\ k = Len(serviceRecords) + 1
                /\ serviceRecords'[k].problem_id = id
                /\ serviceRecords'[k].user_id = problems[id].user_id
                /\ problems'[id].exists
                /\ problems'[id].user_id = problems[id].user_id
                /\ problems'[id].status = StatusDone
          /\ (Answers(s, "create_service_record") /\ req'[s].code = 200) =>
                /\ req'[s].rec \in 1..k
                /\ serviceRecords'[req'[s].rec].user_id = req'[s].owner
                /\ problems'[id].exists => problems'[id].user_id = req'[s].owner]_vars

\* a POST /service-record whose body named another user than the reporter
\* has answered 200 for a ticket it found rejected; the record belongs to
\* the reporter and the ticket is done
C6_Witness ==
    \E s \in Slots :
        /\ req[s].op = "create_service_record" /\ req[s].pc = "done" /\ req[s].code = 200
        /\ req[s].ruid # req[s].owner
        /\ \E d \in req[s].data : d.status = StatusRejected
        /\ serviceRecords[req[s].rec].user_id = req[s].owner
        /\ problems[req[s].id].exists
        /\ problems[req[s].id].user_id = req[s].owner
        /\ problems[req[s].id].status = StatusDone

\* C3: once DELETE /users/me has answered 200 to a request bearing token T,
\* every request bearing T that arrives before T's expiry is refused with
\* 401 by the blacklist lookup, before decoding and user lookup.
C3_TokenRevoked ==
    [][\A s \in Slots :
          (/\ req[s].pc = "idle" /\ req'[s].op \in {"profile", "delete_user"}
           /\ req'[s].tok \in revoked
           /\ now < req'[s].tok.exp)
          => /\ req'[s].pc = "done"
             /\ req'[s].code = 401
             /\ req'[s].why = "blacklist"]_vars

\* a request bearing a token whose account deletion has succeeded was
\* refused by the blacklist before the token's expiry
C3_Witness ==
    \E s \in Slots :
        /\ req[s].op = "profile" /\ req[s].pc = "done"
        /\ req[s].afterRev /\ req[s].tok \in revoked
        /\ req[s].code = 401 /\ req[s].why = "blacklist"
        /\ now < req[s].tok.exp

\* C9 as claimed: a confirmation answered 400 changes no user, and leaves
\* the token in place when the chat identity was already linked; a
\* confirmation that goes through sets the token owner's telegram_id to the
\* chat identity given and its 200 leaves no tg_link:{token}; and for any
\* token at most one confirmation ever answers 200.
C9_AsClaimed ==
    [][\A s \in Slots :
          /\ (Answers(s, "confirm_tg_link") /\ req'[s].code = 400) =>
                /\ users' = users
                /\ req'[s].why = "linked" => tgLinks' = tgLinks
          /\ (req[s].pc = "commit" /\ req'[s].pc = "del_link") =>
                /\ req[s].uid = tgLinks[req[s].link] \/ tgLinks[req[s].link] = 0
                /\ users'[req[s].uid].telegram_id = req[s].tg
          /\ (Answers(s, "confirm_tg_link") /\ req'[s].code = 200) =>
                /\ tgLinks'[req'[s].link] = 0
                /\ confirms'[req'[s].link] <= 1]_vars

\* no two accounts hold the same chat identity
TelegramUnique ==
    \A u, v \in UserIds :
        (u # v /\ users[u].exists /\ users[v].exists /\ users[u].telegram_id # 0)
            => users[u].telegram_id # users[v].telegram_id

\* C10: no two users ever share a non-null telegram_id; a confirmation for
\* a chat identity that some account holds is answered 400 and changes
\* neither users nor tokens; when PATCH /users/telegram/unlink commits, the
\* caller's telegram_id is null and no account holds the old identity, so
\* that the check endpoint, which reports whether an account holds the
\* identity, reports it as not linked.
C10_ChatIdentityUnique ==
    /\ []TelegramUnique
    /\ [][\A s \in Slots :
             /\ (req[s].pc = "idle" /\ req'[s].op = "confirm_tg_link"
                    /\ GetUserByTelegramId(req'[s].tg) # {}) =>
                   /\ req'[s].pc = "done" /\ req'[s].code = 400
                   /\ users' = users /\ tgLinks' = tgLinks
             /\ (Answers(s, "unlink_tg") /\ users[req[s].uid].exists) =>
                   LET old == users[req[s].uid].telegram_id
                   IN /\ users'[req[s].uid].telegram_id = 0
                      /\ old # 0 => \A v \in UserIds : users'[v].telegram_id # old
             /\ Answers(s, "check_tg_link") =>
                   (req'[s].hit <=> \E v \in UserIds :
                                       users[v].exists /\ users[v].telegram_id = req'[s].tg)]_vars

\* an identity unlinked from one account is now held by another, and the
\* check endpoint has said so
C10_Witness ==
    \E s, c \in Slots :
        /\ req[s].op = "unlink_tg" /\ req[s].pc = "done" /\ req[s].tg # 0
        /\ users[req[s].uid].telegram_id = 0
        /\ \E v \in UserIds \ {req[s].uid} : users[v].telegram_id = req[s].tg
        /\ req[c].op = "check_tg_link" /\ req[c].pc = "done"
        /\ req[c].tg = req[s].tg /\ req[c].hit

\* C8: POST /verify-email by an unverified user with the code cached under
\* verification:{user_id} sets is_verified and its 200 leaves no cached
\* code; with another code or with no cached code it answers 400 and
\* changes neither users nor the cache; for a user already verified it
\* answers "already verified" with users and cache untouched; and
\* is_verified turns true only in a request whose code matched.
C8_EmailVerification ==
    [][/\ \A s \in Slots :
             /\ (req[s].pc = "idle" /\ req'[s].op = "verify_email"
                    /\ users[req'[s].uid].is_verified) =>
                   /\ req'[s].pc = "done" /\ req'[s].code = 200 /\ req'[s].why = "already"
                   /\ users' = users /\ verification' = verification
             /\ (req[s].op = "verify_email" /\ req[s].pc = "get_code"
                    /\ req'[s].pc # "get_code") =>
                   IF verification[req[s].uid] = req[s].vcode
                   THEN req'[s].pc = "verify"
                   ELSE /\ req'[s].pc = "done" /\ req'[s].code = 400
                        /\ users' = users /\ verification' = verification
             /\ (req[s].op = "verify_email" /\ req[s].pc = "verify"
                    /\ req'[s].pc # "verify") =>
                   users'[req[s].uid].is_verified
             /\ (Answers(s, "verify_email") /\ req'[s].why = "verified") =>
                   verification'[req'[s].uid] = 0
       /\ \A u \in UserIds :
             (~users[u].is_verified /\ users'[u].is_verified) =>
                \E s \in Slots :
                    /\ req[s].op = "verify_email" /\ req[s].uid = u
                    /\ req[s].pc = "verify" /\ req'[s].pc = "del_code"
                    /\ req[s].cached = req[s].vcode]_vars

\* one user has been verified with the matching code and no code is cached
\* for it, while a submission of a wrong code by the other user was
\* answered 400 and left that user unverified with its code cached
C8_Witness ==
    \E s, r \in Slots :
        /\ req[s].op = "verify_email" /\ req[s].pc = "done" /\ req[s].why = "verified"
        /\ users[req[s].uid].is_verified /\ verification[req[s].uid] = 0
        /\ req[r].op = "verify_email" /\ req[r].pc = "done" /\ req[r].why = "invalid"
        /\ req[r].code = 400 /\ req[r].uid # req[s].uid
        /\ ~users[req[r].uid].is_verified /\ verification[req[r].uid] = req[r].cached

\* the claim's rule for joining a ticket chat
C4_Permitted(u, adm, p) == p.exists /\ (p.user_id = u \/ (adm /\ p.admin_id = u))

\* C4 as claimed: when the chat handler finds that the ticket does not
\* exist or that the user is neither its reporter nor its assigned admin,
\* the connection is closed with 1008, it is in no chat registry, and it
\* has never been accepted.
C4_AsClaimed ==
    [][\A c \in WsSlots :
          (/\ ws[c].kind = "chat" /\ ws[c].pc = "get_problem" /\ ws'[c].pc # "get_problem"
           /\ ~C4_Permitted(ws[c].uid, ws[c].adm, problems[ws[c].id]))
          => /\ ws'[c].pc = "closed" /\ ws'[c].code = 1008
             /\ \A i \in ProblemIds : \A k \in DOMAIN active_connections'[i] :
                    active_connections'[i][k] # c
             /\ ~ws'[c].accepted]_vars

\* a payload names a password
HasPassword(paths) == \E q \in paths : \E i \in 1..Len(q) : q[i] = "password"

\* C5 as claimed: no response body and no broadcast envelope contains a
\* password field.
C5_AsClaimed ==
    /\ \A s \in Slots : req[s].pc = "done" => ~HasPassword(req[s].fields)
    /\ \A e \in wsOut : ~HasPassword(e.fields)


\* C11: a registration succeeds with is_admin = false and is_verified =
\* false; one that reuses the e-mail of an existing user, or an existing
\* username, ends with 400 and creates no user; no two users ever share an
\* e-mail or a username
UsersDistinct ==
    \A u, v \in UserIds :
        users[u].exists /\ users[v].exists /\ u # v
            => /\ identity[u].email # identity[v].email
               /\ identity[u].username # identity[v].username

C11_AsClaimed ==
    /\ UsersDistinct
    /\ \A s \in Slots :
          req[s].op = "register" /\ req[s].pc = "done"
              => /\ req[s].code = 200
                     => ~users[req[s].uid].is_admin /\ ~users[req[s].uid].is_verified
                 /\ req[s].reuse => req[s].code = 400

\* C12: the stored personal best of a user never decreases, equals the
\* maximum of the points the user has submitted once no submission of the
\* user is under way, and a user has at most one row, also when submissions
\* of the same user are interleaved
Stored(u) == IF SnakeRow(u) = 0 THEN 0 ELSE snakeStats[SnakeRow(u)].points

C12_AsClaimed ==
    /\ [](\A u \in UserIds :
            /\ Cardinality({k \in DOMAIN snakeStats : snakeStats[k].user_id = u}) <= 1
            /\ (\A s \in Slots : ~(req[s].op = "snake_game" /\ req[s].uid = u
                                     /\ req[s].pc = "commit"))
                   => Stored(u) = snakeBest[u])
    /\ [][\A u \in UserIds : Stored(u)' >= Stored(u)]_vars

\* C13: the top list of a leaderboard response has at most 10 entries in
\* descending order of points, an entry is flagged is_current_user exactly
\* when it is the caller's, the flag is never in the cache entry, and the
\* response to a submission reflects the submitted score
TopListed(s) ==
    LET top == req[s].body.top_points IN
    /\ Len(top) <= TopLimit
    /\ \A i, j \in DOMAIN top : i < j => top[i].points >= top[j].points
    /\ \A k \in DOMAIN top : top[k].is_current_user <=> top[k].user_id = req[s].uid

FlagNotCached ==
    snakeCache # None
        => \A k \in DOMAIN snakeCache[1] : "is_current_user" \notin DOMAIN snakeCache[1][k]

ReflectsScore(s) ==
    LET top == req[s].body.top_points IN
    /\ req[s].body.user_points >= req[s].points
    /\ \A k \in DOMAIN top : top[k].user_id = req[s].uid => top[k].points >= req[s].points
    /\ Len(top) < TopLimit => \E k \in DOMAIN top : top[k].user_id = req[s].uid

C13_AsClaimed ==
    /\ FlagNotCached
    /\ \A s \in Slots :
          req[s].op \in {"snake_game", "get_snake_game"} /\ req[s].pc = "done" /\ req[s].code = 200
              => /\ TopListed(s)
                 /\ req[s].op = "snake_game" => ReflectsScore(s)

\* C14: a ticket write that succeeds has deleted the list key of the
\* ticket's owner, admin:problems_list and, unless it is a create, the
\* ticket's problem:{id}; and it deletes a cache key only after its database
\* commit
TicketWrites == {"create_problem", "assign_admin", "change_problem_status",
                 "create_service_record", "delete_problem"}

C14_AsClaimed ==
    /\ [](\A s \in Slots :
            req[s].op \in TicketWrites /\ req[s].pc = "done" /\ req[s].code = 200
                => req[s].dels = IF req[s].op = "create_problem" THEN {"user", "admin"}
                                 ELSE {"user", "admin", "detail"})
    /\ [][\A s \in Slots :
            req[s].op \in TicketWrites /\ req'[s].op = req[s].op /\ req'[s].dels # req[s].dels
                => req[s].committed]_vars

\* C15: the body of an admin-only route runs only for a verified admin; a
\* missing, invalid, expired or blacklisted token is answered 401, a valid
\* token of an unverified user 403 on admin-only and verified-only routes, a
\* verified non-admin 403 on admin-only routes, and a refused request
\* changes no ticket, service record, cache entry or notification
ValidToken(t) == t # NoToken /\ ~IsBlacklisted(t) /\ ~Expired(t) /\ users[t.sub].exists

C15_Refused(s) ==
    LET t == req'[s].tok
        op == req'[s].op
    IN
    /\ req'[s].code \in {401, 403}
    /\ t = NoToken \/ IsBlacklisted(t) \/ Expired(t) => req'[s].code = 401
    /\ ValidToken(t) /\ ~users[t.sub].is_verified => req'[s].code = 403
    /\ ValidToken(t) /\ ~users[t.sub].is_admin /\ op \in AdminRoutes => req'[s].code = 403
    /\ UNCHANGED <<problems, serviceRecords, listCache, detailCache, wsOut, outbox>>

C16_Starts(s) == req[s].pc = "idle" /\ req'[s].op = "change_problem_status"

C18_AsClaimed ==
    \A s \in Slots :
        req[s].op = "create_service_record" /\ req[s].why = "no_ticket"
            => req[s].code = 404

\* C19: a ticket starts as "V obrobtsi" without admin; assign sets admin_id
\* and "v roboti"; once a ticket is "vykonano" or "vidmovleno" no operation
\* moves it to another status than these two
Terminal == {StatusDone, StatusRejected}

C19_AsClaimed ==
    [][\A id \in ProblemIds :
          /\ ~problems[id].exists /\ problems'[id].exists
                => problems'[id].status = StatusNew /\ problems'[id].admin_id = 0
          /\ \A s \in Slots :
                req[s].pc = "idle" /\ req'[s].op = "assign_admin" /\ req'[s].id = id
                    /\ problems[id].exists
                    => problems'[id].admin_id = req'[s].uid /\ problems'[id].status = StatusInWork
          /\ problems[id].exists /\ problems[id].status \in Terminal /\ problems'[id].exists
                => problems'[id].status \in Terminal]_vars

\* C20: a ticket never has more than one service record
C20_AsClaimed ==
    \A id \in ProblemIds :
        Cardinality({k \in DOMAIN serviceRecords : serviceRecords[k].problem_id = id}) <= 1

\* C21: a rejection through the status endpoint adds exactly one mail to the
\* ticket's owner and, iff the owner has a telegram_id, exactly one bot
\* message; "vykonano" through the status endpoint adds no task; a service
\* record adds one mail and, iff the owner has a telegram_id, one bot
\* message; every task is attempted at most once, and an attempt changes
\* nothing of the response
OneEach(tasks, about, id, o) ==
    /\ Cardinality({i \in DOMAIN tasks : tasks[i].kind = "mail"}) = 1
    /\ Cardinality({i \in DOMAIN tasks : tasks[i].kind = "tg"})
           = IF users[o].telegram_id # 0 THEN 1 ELSE 0
    /\ \A i \in DOMAIN tasks :
          /\ tasks[i].kind \in {"mail", "tg"}
          /\ tasks[i].about = about /\ tasks[i].id = id
          /\ tasks[i].to = IF tasks[i].kind = "mail" THEN o ELSE users[o].telegram_id

Registered(c, id) == \E k \in DOMAIN active_connections[id] : active_connections[id][k] = c

C22_AsClaimed ==
    /\ [][\A c \in WsSlots :
            ws'[c].seen = ws[c].seen + 1
                => /\ ws'[c].pc # "closed"
                   /\ Registered(c, ws[c].id)'
                   /\ ws'[c].frame = "garbage"
                          => /\ ws'[c].got = Append(ws[c].got, 0)
                             /\ ws'[c].pc = "open"
                             /\ \A d \in WsSlots \ {c} : ws'[d] = ws[d]
                             /\ UNCHANGED messages
                   /\ ws'[c].frame \in {"scalar", "absent", "empty", "blank"}
                          => ws'[c].pc = "open" /\ UNCHANGED <<messages, ws[c].got>>
                   /\ ws'[c].frame \in {"number", "text"} => ws'[c].pc = "create_message"]_vars
    /\ [][\A c \in WsSlots :
            ws[c].pc = "create_message" /\ ws'[c].pc # "create_message"
                => messages' = Append(messages, [user_id |-> ws[c].uid, problem_id |-> ws[c].id,
                                                 is_admin |-> users[ws[c].uid].is_admin])]_vars
    /\ [](\A c \in WsSlots : \A i \in DOMAIN ws[c].got :
            ws[c].got[i] # 0 => messages[ws[c].got[i]].problem_id = ws[c].id)

\* C23: once chat_disconnect or disconnect_global has run for a socket, the
\* socket is in no list of the registry, and no socket is twice in a list
Occurrences(list, c) == Cardinality({k \in DOMAIN list : list[k] = c})

RegistryLists ==
    {active_connections[id] : id \in ProblemIds}
        \cup {user_connections[u] : u \in UserIds} \cup {admin_connections}

C23_AsClaimed ==
    \A c \in WsSlots : \A list \in RegistryLists :
        /\ Occurrences(list, c) <= 1
        /\ ws[c].pc = "closed" /\ ws[c].code = 1000 => Occurrences(list, c) = 0

\* C24: POST /login answers with an access token whose sub is the user's id
\* if and only if the email is that of an existing user and the password
\* verifies against the stored hash; otherwise 401 "Invalid credentials",
\* the same for an unknown email and for a wrong password; nothing stored changes
Holders(email) ==
    {u \in UserIds : users[u].exists /\ Lower(identity[u].email) = Lower(email)}

C24_AsClaimed ==
    [][\A s \in Slots :
          req[s].pc = "idle" /\ req'[s].op = "login"
              => /\ IF \E u \in Holders(req'[s].email) :
                          identity[u].password = [argon2 |-> req'[s].password]
                    THEN /\ req'[s].code = 200
                         /\ req'[s].tok.sub \in Holders(req'[s].email)
                         /\ identity[req'[s].tok.sub].password = [argon2 |-> req'[s].password]
                    ELSE /\ req'[s].code = 401 /\ req'[s].why = "Invalid credentials"
                         /\ req'[s].tok = NoToken
                 /\ UNCHANGED <<users, identity, nextUserId, ticketState, offTicket>>]_vars

\* C28: PATCH /users/me changes exactly the supplied fields among username,
\* email and password of the caller and nothing of another user; a supplied
\* password is stored hashed, so that it verifies and no other does; and a
\* later POST /login with the account's email as it was set and its current
\* password succeeds
Supplied(new, unset, old) == IF new = unset THEN old ELSE new

C28_AsClaimed ==
    [][\A s \in Slots :
          /\ req[s].op = "update_profile" /\ req[s].pc = "commit" /\ req'[s].code = 200
                => /\ identity'[req[s].uid].username
                          = Supplied(req[s].username, 0, identity[req[s].uid].username)
                   /\ identity'[req[s].uid].email
                          = Supplied(req[s].email, NoEmail, identity[req[s].uid].email)
                   /\ identity'[req[s].uid].password
                          = IF req[s].password = 0 THEN identity[req[s].uid].password
                            ELSE [argon2 |-> req[s].password]
                   /\ \A u \in UserIds \ {req[s].uid} : identity'[u] = identity[u]
                   /\ UNCHANGED users
          /\ req[s].pc = "idle" /\ req'[s].op = "login"
                => \A u \in UserIds :
                      /\ users[u].exists
                      /\ identity[u].email = req'[s].email
                      /\ identity[u].password = [argon2 |-> req'[s].password]
                      => req'[s].code = 200 /\ req'[s].tok.sub = u]_vars

\* C25: POST /auth/refresh issues an access token, with the subject of the
\* presented token, if and only if that token's signature verifies, it is
\* not expired, its type is "refresh" and its subject is an existing user;
\* otherwise the answer is 401 and no token is issued
C25_RefreshExchange ==
    [][\A s \in Slots :
          req[s].pc = "idle" /\ req'[s].op = "refresh"
              => \E jwt \in req'[s].data :
                    /\ req'[s].data = {jwt}
                    /\ IF /\ jwt.signed /\ ~(jwt.exp < now)
                          /\ jwt.type = "refresh" /\ users[jwt.sub].exists
                       THEN /\ req'[s].code = 200
                            /\ req'[s].tok # NoToken /\ req'[s].tok.sub = jwt.sub
                       ELSE req'[s].code = 401 /\ req'[s].tok = NoToken
                    /\ UNCHANGED <<users, ticketState, offTicket>>]_vars

\* a refresh token was exchanged, and the refresh token of a deleted user
\* and an access token were refused
C25_Witness ==
    \E s, t \in Slots :
        /\ req[s].op = "refresh" /\ req[s].code = 200
        /\ req[t].op = "refresh" /\ req[t].code = 401
        /\ \E jwt \in req[t].data : jwt.signed /\ jwt.type = "refresh" /\ ~users[jwt.sub].exists

\* C26: once POST /login has admitted its rate of calls within the window,
\* a further call inside the window is answered 429 without credential
\* check, token or state change; calls are admitted again when the window
\* has passed
AdmittedSince(t) == Cardinality({i \in DOMAIN bucket : bucket[i] > t})

C27_AsClaimed ==
    [][/\ \A s \in Slots :
             /\ req'[s].op = "register" /\ req'[s] # req[s]
                    => UNCHANGED verification /\ req'[s].tasks = <<>>
             /\ Answers(s, "resend_code")
                    => /\ req'[s].tasks = <<[kind |-> "mail", about |-> "code",
                                            id |-> verification'[req'[s].uid],
                                            to |-> req'[s].uid]>>
                       /\ verification[req'[s].uid] # 0 => UNCHANGED verification
       /\ \A u \in UserIds :
             /\ verification[u] = 0 /\ verification'[u] # 0
                    => \E s \in Slots : Answers(s, "resend_code") /\ req'[s].uid = u
             /\ verification[u] # 0 /\ verification'[u] # 0
                    => verification'[u] = verification[u]]_vars

\* C29: POST /problems with an image whose file name does not end in a
\* dot followed by png, jpg, jpeg or webp in any casing, a name without
\* extension included, is answered 415 with no ticket created, no cache key
\* deleted and nothing broadcast; without image or with an accepted image
\* the ticket is created with the caller as user_id
EndsInExtension(filename) ==
    /\ Len(filename) >= 2
    /\ filename[Len(filename)].text \in {"png", "jpg", "jpeg", "webp"}

C29_AsClaimed ==
    [][\A s \in Slots :
          req[s].pc = "idle" /\ req'[s].op = "create_problem"
              => IF \E filename \in req'[s].data : ~EndsInExtension(filename)
                 THEN /\ req'[s].pc = "done" /\ req'[s].code = 415
                      /\ UNCHANGED <<problems, nextProblemId, listCache, detailCache, wsOut>>
                 ELSE /\ ~problems[req'[s].id].exists
                      /\ problems'[req'[s].id].exists
                      /\ problems'[req'[s].id].user_id = req'[s].uid]_vars

\* C30: every start command, with or without payload, and every
\* ticket-list trigger is in the end answered with exactly one message
\* whatever its API call ended in, and no handler ends in an unhandled
\* error; a link confirmation answered with another status than 200 relays
\* the detail text, and a ticket list that failed otherwise than with 404
\* is answered with the connectivity-failure message
Triggers(m) == m.command \in {"start", "problems"} \/ m.button

Ended(b) == bot[b].pc \in {"dropped", "handled"}

C30_AsClaimed ==
    \A b \in BotSlots :
        (bot[b].pc = "received" /\ Triggers(bot[b].message))
            ~> /\ Ended(b)
               /\ Len(bot[b].answers) = 1
               /\ bot[b].pc = "handled" =>
                     /\ (/\ bot[b].handler = "handle_start"
                         /\ bot[b].res # NetworkFailure
                         /\ bot[b].res.status # 200) => bot[b].answers = <<"detail">>
                     /\ (/\ bot[b].handler = "handle_problems"
                         /\ (bot[b].res = NetworkFailure \/ bot[b].res.status \notin {200, 404}))
                            => bot[b].answers = <<"no_connection">>

\* C31: a finished broadcast has sent its envelope exactly once to every
\* admin socket and every socket of the ticket's owner that was registered
\* from its start to its end and whose send did not fail, and to no socket
\* of another plain user, whatever connected or disconnected meanwhile
Times(list, c) == Cardinality({i \in DOMAIN list : list[i] = c})

C31_AsClaimed ==
    \A s \in Slots :
        (req[s].op \in BroadcastOps /\ req[s].pc = "done" /\ req[s].code = 200)
            => /\ \A c \in (req[s].start \cap Recipients(req[s].owner)) \ req[s].lost :
                     Times(req[s].sent, c) = 1
               /\ \A i \in DOMAIN req[s].sent :
                     ws[req[s].sent[i]].adm \/ ws[req[s].sent[i]].uid = req[s].owner

\* C32: a read that overlaps a ticket write can leave a cache entry that
\* differs from the database with no operation in progress; when reads and
\* writes do not overlap, no cached list and no cached ticket ever differs
\* from the database
ListFresh(k) ==
    listCache[k][1] = IF k = AdminListKey THEN GetProblems ELSE GetProblemsByUserId(k)

DetailFresh(id) ==
    problems[id].exists /\ detailCache[id][1] = Encode(id, problems[id])

C32_AsClaimed ==
    ~WriteInFlight
        => /\ \A k \in ListKeys : listCache[k] # None => ListFresh(k)
           /\ \A id \in ProblemIds : detailCache[id] # None => DetailFresh(id)

\* C33: in every reachable state every socket in the chat registry of
\* ticket P belongs to P's reporter or to P's currently assigned admin,
\* also after P was assigned to another admin or deleted
Member(c, id) ==
    /\ problems[id].exists
    /\ problems[id].user_id = ws[c].uid \/ problems[id].admin_id = ws[c].uid

C33_AsClaimed ==
    \A id \in ProblemIds : \A i \in DOMAIN active_connections[id] :
        Member(active_connections[id][i], id)

\* C34: the WebSocket dependency closes with 1008 for every token the HTTP
\* dependency would refuse at that moment, a token in the revocation cache
\* included, even when the user of its subject exists
Handshake(c) == ws[c].pc = "none" /\ ws'[c].pc # "none" /\ ws'[c].cred \in Presented

C34_AsClaimed ==
    [][\A c \in WsSlots :
          (Handshake(c) /\ BearerAuth(ws'[c].cred) # 0)
              => (ws'[c].pc = "closed" /\ ws'[c].code = 1008)]_vars

\* C37: a token of type "refresh" is never accepted as credential, neither
\* by the HTTP dependency nor by the WebSocket dependency, so that an
\* accepted credential is never older than the access-token lifetime
C37_AsClaimed ==
    [][/\ \A c \in WsSlots :
             (Handshake(c) /\ ws'[c].cred.type = "refresh")
                 => (ws'[c].pc = "closed" /\ ws'[c].code = 1008)
       /\ \A s \in Slots :
             (req[s].pc = "idle" /\ req'[s].op = "bearer")
                 => \A jwt \in req'[s].data :
                       jwt.type = "refresh" => req'[s].code = 401]_vars

\* C35: in every reachable state a ticket that has a service record has the
\* status "виконано", whatever writes follow or interleave with the
\* creation of the record
HasRecord(id) == \E k \in DOMAIN serviceRecords : serviceRecords[k].problem_id = id

C35_AsClaimed ==
    \A id \in ProblemIds :
        (problems[id].exists /\ HasRecord(id)) => problems[id].status = StatusDone

\* C36: every admin is verified; is_admin changes only to true and only in
\* the user's own POST /users/makeadmin, which sets it for every verified
\* caller; is_verified is never reset, also when the user changes the
\* address; a new account has neither flag
MakesAdmin(s, u) ==
    /\ req[s].op = "make_admin" /\ req[s].pc = "commit" /\ req[s].uid = u
    /\ req'[s].pc = "done"

FlagsStep(u) ==
    /\ (~users[u].exists /\ users'[u].exists)
          => (~users'[u].is_admin /\ ~users'[u].is_verified)
    /\ (users[u].exists /\ users'[u].exists) =>
          /\ users[u].is_admin => users'[u].is_admin
          /\ users[u].is_verified => users'[u].is_verified
          /\ users'[u].is_admin # users[u].is_admin => \E s \in Slots : MakesAdmin(s, u)
          /\ \A s \in Slots : MakesAdmin(s, u) => (users'[u].is_admin /\ req'[s].code = 200)

C36_Privileges ==
    /\ [](\A u \in UserIds : users[u].is_admin => users[u].is_verified)
    /\ [][\A u \in UserIds : FlagsStep(u)]_vars

\* C36 witness: an admin, verified, whose change of address was stored
C36_Witness ==
    \E s \in Slots :
        /\ req[s].op = "update_profile" /\ req[s].pc = "done" /\ req[s].code = 200
        /\ req[s].email # NoEmail /\ identity[req[s].uid].email = req[s].email
        /\ users[req[s].uid].is_admin /\ users[req[s].uid].is_verified

\* C38: assign changes only admin_id and status of the addressed ticket, a
\* status update only its status, the creation of a service record only its
\* status and adds one record; no other ticket changes, and the user_id of
\* a ticket never changes after creation
Writes(s, op, id) == req'[s] # req[s] /\ req'[s].op = op /\ req'[s].id = id

TicketFrame(id) ==
    (problems[id].exists /\ problems'[id].exists) =>
        /\ problems'[id].user_id = problems[id].user_id
        /\ problems'[id].admin_id # problems[id].admin_id
              => \E s \in Slots : Writes(s, "assign_admin", id)
        /\ problems'[id].status # problems[id].status
              => \E s \in Slots :
                    \/ Writes(s, "assign_admin", id)
                    \/ Writes(s, "change_problem_status", id)
                    \/ Writes(s, "create_service_record", id)

RecordFrame ==
    \A s \in Slots :
        (req'[s].op = "create_service_record" /\ req'[s].committed /\ ~req[s].committed)
            => /\ Len(serviceRecords') = Len(serviceRecords) + 1
               /\ SubSeq(serviceRecords', 1, Len(serviceRecords)) = serviceRecords
               /\ serviceRecords'[Len(serviceRecords')].problem_id = req'[s].id

C38_AsClaimed == [][RecordFrame /\ \A id \in ProblemIds : TicketFrame(id)]_vars
====
